---- MODULE Spec2Model ----
(***************************************************************************)
(* Verification model of bact-mdr-profiler.                                *)
(*                                                                         *)
(* Part 1: pc_skeleton (causal/discovery.py), the PC skeleton learner.     *)
(*                                                                         *)
(* Features are numbered by their position in the caller's feature list   *)
(* (feature i is features[i]).  An undirected edge of the networkx Graph   *)
(* is the pair <<u, v>> with u before v in the feature list: this is the   *)
(* orientation in which G.edges() reports it.  p-values live on the grid   *)
(* 0..MaxP, MaxP standing for p = 1.0; alpha is a grid point below 1.0.    *)
(* The data frame enters only through the p-values _ci_test computes from  *)
(* it: they are chosen when a test is performed.                           *)
(***************************************************************************)
EXTENDS Integers, Sequences, FiniteSets, TLC

\* ---- bounds ------------------------------------------------------------
NumFeatures == 4        \* features of the run checked under Spec
AnyOrderFeatures == 3   \* features of the run checked under SpecAnyOrder
TwoRunFeatures == 3     \* features of the runs checked under SpecTwoRuns
MaxCond == 2            \* largest max_cond an invocation is given
MaxP == 1               \* p-value grid 0..MaxP

VARIABLES
    features,   \* the caller's feature list
    alpha,      \* significance level
    max_cond,   \* maximum conditioning-set size
    G,          \* the undirected graph: set of edges <<u, v>>, u < v
    sep,        \* separation sets: ordered pair -> list
    details,    \* list of detail rows
    sz,         \* current conditioning-set size
    edges,      \* list(G.edges()) taken at the start of the size-phase
    scanned,    \* indices of `edges` already scanned in this phase
    rm,         \* edges marked for removal in this phase
    DG,         \* the directed graph returned: set of arcs <<a, b>>
    pc,         \* "scan", "apply", "orient", "done"
    trace,      \* history: what the last edge scan read and tested
    everIndep,  \* history: pairs on which some test returned independent
    second,     \* the second invocation modelled: "none", "same_process"
                \* or "new_process"
    run,        \* which invocation is running
    memo,       \* p-values the data gave so far (kept for a second invocation)
    order,      \* iteration order the process gave each set so far (kept
                \* for a second invocation in the same process)
    prev,       \* what the first invocation computed
    fn,         \* the function called: "pc_skeleton" or one of the others
    inp,        \* the arguments of the call (functions other than pc_skeleton)
    out         \* what the call returned, out.ready once it has returned

\* the variables of pc_skeleton
pcVars == <<features, alpha, max_cond, G, sep, details, sz, edges, scanned, rm,
          DG, pc, trace, everIndep, second, run, memo, order, prev>>

\* the variables of a call of one of the other functions
fnVars == <<fn, inp, out>>

vars == <<pcVars, fnVars>>

Nodes == 1..Len(features)
PVals == 0..MaxP

Min(S) == CHOOSE x \in S : \A y \in S : x <= y
Range(s) == {s[k] : k \in DOMAIN s}

\* ---- networkx Graph helpers -------------------------------------------
\* G.add_edges_from(combinations(features, 2))
CompleteGraph(n) == {e \in (1..n) \X (1..n) : e[1] < e[2]}

HasEdge(g, a, b) == <<a, b>> \in g \/ <<b, a>> \in g

Neighbors(g, x) == {y \in Nodes : HasEdge(g, x, y)}

LexLeq(e, f) == e[1] < f[1] \/ (e[1] = f[1] /\ e[2] <= f[2])

\* list(G.edges()): nodes in insertion order, each adjacency in insertion
\* order, every edge reported once from its earlier endpoint.
RECURSIVE EdgesList(_)
EdgesList(g) ==
    IF g = {} THEN <<>>
    ELSE LET m == CHOOSE e \in g : \A f \in g : LexLeq(e, f)
         IN <<m>> \o EdgesList(g \ {m})

\* ---- itertools.combinations -------------------------------------------
RECURSIVE Combinations(_, _)
Combinations(s, r) ==
    IF r = 0 THEN << <<>> >>
    ELSE IF Len(s) < r THEN <<>>
    ELSE LET withHead == Combinations(Tail(s), r - 1)
             rest == Combinations(Tail(s), r)
         IN [k \in 1..Len(withHead) |-> <<Head(s)>> \o withHead[k]] \o rest

\* list(set(...)): the elements of the set in the set's iteration order,
\* which for strings depends on the process's hash seed.  Every listing is
\* possible; a second invocation in the same process lists the same set
\* the same way again (variable `order`).
ListsOfSet(S) ==
    {f \in [1..Cardinality(S) -> S] :
        \A a, b \in 1..Cardinality(S) : a # b => f[a] # f[b]}

\* ---- _ci_test -----------------------------------------------------------
\* The conditioning sets whose p-value the data decides: a stratification
\* on u or v itself leaves no 2x2 stratum and never reaches the statistic.
TestSets(pool, u, v, size) ==
    {S \in SUBSET (pool \ {u, v}) : Cardinality(S) = size}

CiTest(u, v, S, a, pv) ==
    IF Range(S) \cap {u, v} # {}
    THEN [indep |-> TRUE, p |-> MaxP]
    ELSE [indep |-> pv[Range(S)] > a, p |-> pv[Range(S)]]

\* ---- pc_skeleton, phase 1 ----------------------------------------------
\* nbrs = set(G.neighbors(u)) | set(G.neighbors(v)) - {u, v}
Pool(g, u, v) == Neighbors(g, u) \cup (Neighbors(g, v) \ {u, v})

Max(S) == CHOOSE x \in S : \A y \in S : x >= y

\* (mutant) no break: the loop runs on and the last independent subset wins
StopAtLastHit(hits, n) == IF hits = {} THEN n ELSE Max(hits)

\* the inner loop breaks at the first subset found independent
StopAt(hits, n) == IF hits = {} THEN n ELSE Min(hits)

\* (mutant) the edge is removed as soon as it is found separable
GraphAfterScanRemovesNow(g, e, found) == IF found THEN g \ {e} ELSE g

\* the graph is left alone while the phase's edges are scanned
GraphAfterScan(g, e, found) == g

\* (mutant) only the ordering (u, v) is recorded
SepAfterOneWay(s, u, v, S) ==
    [k \in DOMAIN s \cup {<<u, v>>} |-> IF k = <<u, v>> THEN S ELSE s[k]]

\* sep[(u, v)] = list(S); sep[(v, u)] = list(S)
SepAfter(s, u, v, S) ==
    [k \in DOMAIN s \cup {<<u, v>>, <<v, u>>} |->
        IF k \in {<<u, v>>, <<v, u>>} THEN S ELSE s[k]]

\* "P": round(p, 4) keeps every grid point; "Cond_Set" is the joined names
\* of S in order, the empty list standing for the empty-set mark
RemovedRow(u, v, S, p, size) ==
    [Node1 |-> u, Node2 |-> v, Removed |-> TRUE, Cond_Set |-> S,
     P |-> p, Cond_Size |-> size]

\* (mutant) the audit row carries size 0 instead of the sentinel
AuditRowSizeZero(u, v, p) ==
    [Node1 |-> u, Node2 |-> v, Removed |-> FALSE, Cond_Set |-> <<0>>,
     P |-> p, Cond_Size |-> 0]

\* Cond_Set "—" is written <<0>>: no feature has number 0
AuditRow(u, v, p) ==
    [Node1 |-> u, Node2 |-> v, Removed |-> FALSE, Cond_Set |-> <<0>>,
     P |-> p, Cond_Size |-> -1]

\* (mutant) the first marked edge is left in the graph
RemoveMarkedButFirst(g, marked) ==
    IF marked = <<>> THEN g ELSE g \ Range(Tail(marked))

\* for u, v in rm: if G.has_edge(u, v): G.remove_edge(u, v)
RemoveMarked(g, marked) == g \ Range(marked)

NoTrace == [u |-> 0, v |-> 0, sz |-> 0, nbrs |-> <<>>, skipped |-> FALSE,
            tried |-> <<>>, audit |-> <<>>]

MemoKey(u, v, S) == <<u, v, S>>

\* The inner loop `for S in combinations(nbrs, sz)` with its for-else, for
\* one edge: what was tested, whether a separating subset was found.
ScanOutcome(u, v, size, nbrs, a, pv) ==
    LET skipped == Len(nbrs) < size
        combos == IF skipped THEN <<>> ELSE Combinations(nbrs, size)
        res == [k \in 1..Len(combos) |-> CiTest(u, v, combos[k], a, pv)]
        hits == {k \in 1..Len(combos) : res[k].indep}
        last == StopAt(hits, Len(combos))
        found == hits # {}
        \* the for-else branch: a second unconditional test
        audit == IF ~skipped /\ ~found /\ size = 0
                 THEN LET t == CiTest(u, v, <<>>, a, pv)
                      IN <<[S |-> <<>>, indep |-> t.indep, p |-> t.p]>>
                 ELSE <<>>
    IN [skipped |-> skipped,
        found |-> found,
        tried |-> [k \in 1..last |->
                     [S |-> combos[k], indep |-> res[k].indep, p |-> res[k].p]],
        audit |-> audit,
        hitS |-> IF found THEN combos[last] ELSE <<>>,
        hitP |-> IF found THEN res[last].p ELSE 0]

\* One iteration of `for u, v in list(G.edges())` on edges[i].
ScanEdge(i) ==
    /\ pc = "scan"
    /\ i \in (1..Len(edges)) \ scanned
    /\ LET u == edges[i][1]
           v == edges[i][2]
           pool == Pool(G, u, v)
       IN \E nbrs \in ListsOfSet(pool) :
          \E pv \in [TestSets(pool, u, v, sz) -> PVals] :
            /\ pool \in DOMAIN order => nbrs = order[pool]
            /\ \A S \in DOMAIN pv :
                 MemoKey(u, v, S) \in DOMAIN memo => pv[S] = memo[MemoKey(u, v, S)]
            /\ order' = IF second = "same_process"
                         THEN [s \in DOMAIN order \cup {pool} |->
                                 IF s = pool THEN nbrs ELSE order[s]]
                         ELSE order
            /\ \E o \in {ScanOutcome(u, v, sz, nbrs, alpha, pv)} :
               LET done == o.tried \o o.audit
               IN /\ rm' = IF o.found THEN Append(rm, <<u, v>>) ELSE rm
                  /\ sep' = IF o.found THEN SepAfter(sep, u, v, o.hitS) ELSE sep
                  /\ details' =
                        IF o.found
                        THEN Append(details, RemovedRow(u, v, o.hitS, o.hitP, sz))
                        ELSE IF o.audit # <<>>
                        THEN Append(details, AuditRow(u, v, o.audit[1].p))
                        ELSE details
                  /\ G' = GraphAfterScan(G, <<u, v>>, o.found)
                  /\ trace' = [u |-> u, v |-> v, sz |-> sz, nbrs |-> nbrs,
                               skipped |-> o.skipped, tried |-> o.tried,
                               audit |-> o.audit]
                  /\ everIndep' = IF \E k \in DOMAIN done : done[k].indep
                                  THEN everIndep \cup {<<u, v>>}
                                  ELSE everIndep
                  /\ memo' = IF second # "none"
                             THEN [key \in DOMAIN memo \cup
                                        {MemoKey(u, v, Range(done[k].S)) :
                                            k \in {j \in DOMAIN done :
                                                     Range(done[j].S) \in DOMAIN pv}} |->
                                     IF key \in DOMAIN memo THEN memo[key]
                                     ELSE pv[key[3]]]
                             ELSE memo
    /\ scanned' = scanned \cup {i}
    /\ UNCHANGED <<features, alpha, max_cond, sz, edges, DG, pc, second, run, prev>>
    /\ UNCHANGED fnVars

\* the edges are scanned in the order of the list
ScanNext ==
    /\ pc = "scan"
    /\ scanned # 1..Len(edges)
    /\ ScanEdge(Min((1..Len(edges)) \ scanned))

\* the same phase scanning its edges in an arbitrary order
ScanAny == \E i \in 1..Len(edges) : ScanEdge(i)

\* End of one size-phase: apply the removals, go to the next size.
ApplyRemovals ==
    /\ pc = "scan"
    /\ scanned = 1..Len(edges)
    /\ G' = RemoveMarked(G, rm)
    /\ rm' = <<>>
    /\ scanned' = {}
    /\ sz' = sz + 1
    /\ edges' = IF sz + 1 <= max_cond THEN EdgesList(G') ELSE <<>>
    /\ pc' = IF sz + 1 <= max_cond THEN "scan" ELSE "orient"
    /\ trace' = NoTrace
    /\ UNCHANGED <<features, alpha, max_cond, sep, details, DG, everIndep,
                   second, run, memo, order, prev>>
    /\ UNCHANGED fnVars

\* ---- pc_skeleton, phase 2 ----------------------------------------------
SepGet(s, i, j) == IF <<i, j>> \in DOMAIN s THEN s[<<i, j>>] ELSE <<>>

\* for k in G.nodes: for i, j in combinations(G.neighbors(k), 2):
\* the triples that pass both tests of the loop body
OrientedTriples(g, s) ==
    {t \in Nodes \X Nodes \X Nodes :
        /\ t[2] < t[3]
        /\ HasEdge(g, t[1], t[2])
        /\ HasEdge(g, t[1], t[3])
        /\ ~HasEdge(g, t[2], t[3])
        /\ t[1] \notin Range(SepGet(s, t[2], t[3]))}

\* (mutant) only the arc to the first neighbour is removed
ArcsRemovedFirstOnly(t) == {<<t[1], t[2]>>}

\* DG.remove_edge(k, i); DG.remove_edge(k, j)
ArcsRemoved(t) == {<<t[1], t[2]>>, <<t[1], t[3]>>}

\* the arcs removed from the bidirected graph
OrientedAway(g, s) == UNION {ArcsRemoved(t) : t \in OrientedTriples(g, s)}

Bidirected(g) == g \cup {<<e[2], e[1]>> : e \in g}

Orient ==
    /\ pc = "orient"
    /\ DG' = Bidirected(G) \ OrientedAway(G, sep)
    /\ pc' = "done"
    /\ UNCHANGED <<features, alpha, max_cond, G, sep, details, sz, edges,
                   scanned, rm, trace, everIndep, second, run, memo, order, prev>>
    /\ UNCHANGED fnVars

\* ---- a second invocation with the same arguments -----------------------
Reinvoke ==
    /\ pc = "done"
    /\ second # "none"
    /\ run = 1
    /\ prev' = [DG |-> DG, details |-> details, G |-> G, sep |-> sep]
    /\ run' = 2
    /\ G' = CompleteGraph(Len(features))
    /\ sep' = <<>>
    /\ details' = <<>>
    /\ sz' = 0
    /\ edges' = EdgesList(G')
    /\ scanned' = {}
    /\ rm' = <<>>
    /\ DG' = {}
    /\ pc' = "scan"
    /\ trace' = NoTrace
    /\ everIndep' = {}
    /\ UNCHANGED <<features, alpha, max_cond, second, memo, order>>
    /\ UNCHANGED fnVars

\* ---- specifications -----------------------------------------------------
InitWith(n, k) ==
    /\ features = [i \in 1..n |-> i]
    /\ alpha \in 0..(MaxP - 1)
    /\ max_cond \in 0..MaxCond
    /\ G = CompleteGraph(n)
    /\ sep = <<>>
    /\ details = <<>>
    /\ sz = 0
    /\ edges = EdgesList(CompleteGraph(n))
    /\ scanned = {}
    /\ rm = <<>>
    /\ DG = {}
    /\ pc = "scan"
    /\ trace = NoTrace
    /\ everIndep = {}
    /\ second = k
    /\ run = 1
    /\ memo = <<>>
    /\ order = <<>>
    /\ prev = [DG |-> {}, details |-> <<>>, G |-> {}, sep |-> <<>>]
    /\ fn = "pc_skeleton"
    /\ inp = <<>>
    /\ out = [ready |-> FALSE]

Init == InitWith(NumFeatures, "none")
Next == ScanNext \/ ApplyRemovals \/ Orient
Spec == Init /\ [][Next]_vars

\* two invocations in one process on the same arguments, the second
\* scanning each phase's edges in an arbitrary order
InitAnyOrder == InitWith(AnyOrderFeatures, "same_process")
NextAnyOrder ==
    \/ (run = 1 /\ ScanNext)
    \/ (run = 2 /\ ScanAny)
    \/ ApplyRemovals
    \/ Orient
    \/ Reinvoke
SpecAnyOrder == InitAnyOrder /\ [][NextAnyOrder]_vars

\* two invocations on the same arguments in two processes
InitTwoRuns == InitWith(TwoRunFeatures, "new_process")
NextTwoRuns == ScanNext \/ ApplyRemovals \/ Orient \/ Reinvoke
SpecTwoRuns == InitTwoRuns /\ [][NextTwoRuns]_vars

\* ==== claims about pc_skeleton ==========================================
AllPairs == CompleteGraph(Len(features))
RemovalFinished == pc \in {"orient", "done"}
Scanned == pc = "scan" /\ trace.u # 0
LastTried == trace.tried[Len(trace.tried)]

\* C1: for every scanned edge (u, v) the conditioning pool is
\* (neighbours of u united with neighbours of v) minus {u, v}; neither u nor
\* v is in the pool, in a conditioning set tested for (u, v), or in the
\* separating set recorded for (u, v).
C1_PoolExcludesEndpoints ==
    /\ Scanned =>
         /\ Range(trace.nbrs) =
              (Neighbors(G, trace.u) \cup Neighbors(G, trace.v)) \ {trace.u, trace.v}
         /\ \A k \in DOMAIN trace.tried :
              Range(trace.tried[k].S) \cap {trace.u, trace.v} = {}
    /\ \A key \in DOMAIN sep : Range(sep[key]) \cap {key[1], key[2]} = {}

\* C2: every edge of the skeleton is present in at least one direction in
\* the returned directed graph, so the undirected view of the returned graph
\* is exactly the skeleton.
UndirectedView(dg) == {a \in dg : a[1] < a[2]} \cup {<<a[2], a[1]>> : a \in {b \in dg : b[1] > b[2]}}
C2_SkeletonInReturnedGraph == pc = "done" => UndirectedView(DG) = G

\* C3: when edge removal has finished, edge u-v is in the skeleton if and
\* only if no independence test the run performed on (u, v) returned
\* independent.
C3_EdgeIffNeverIndependent ==
    RemovalFinished => \A e \in AllPairs : e \in G <=> e \notin everIndep
C3_Witness ==
    /\ pc = "orient"
    /\ G # {}
    /\ everIndep # {}
    /\ everIndep # AllPairs

\* C4: for an edge at size sz the subsets tried are those of size sz in
\* enumeration order; the first one found independent is recorded as the
\* separating set of (u, v) and of (v, u), the edge is marked for removal,
\* and no subset is tested after it at that size or at a larger size.
C4_FirstIndependentSubsetStops ==
    (Scanned /\ ~trace.skipped) =>
       LET combos == Combinations(trace.nbrs, trace.sz)
           n == Len(trace.tried)
           e == <<trace.u, trace.v>>
       IN /\ n >= 1 /\ n <= Len(combos)
          /\ \A k \in 1..n :
               /\ trace.tried[k].S = combos[k]
               /\ Len(trace.tried[k].S) = trace.sz
               /\ k < n => ~trace.tried[k].indep
          /\ ~LastTried.indep => n = Len(combos) /\ e \notin Range(rm)
          /\ LastTried.indep =>
               /\ e \in Range(rm)
               /\ <<trace.u, trace.v>> \in DOMAIN sep
               /\ <<trace.v, trace.u>> \in DOMAIN sep
               /\ sep[<<trace.u, trace.v>>] = LastTried.S
               /\ sep[<<trace.v, trace.u>>] = LastTried.S
          \* the edge was not found separable at a smaller size
          /\ \A r \in Range(details) :
               (r.Removed /\ r.Node1 = trace.u /\ r.Node2 = trace.v)
                   => r.Cond_Size = trace.sz
C4_Witness ==
    /\ Scanned
    /\ trace.sz = 1
    /\ Len(trace.tried) = 2
    /\ ~trace.tried[1].indep
    /\ LastTried.indep
    /\ Len(Combinations(trace.nbrs, trace.sz)) = 3

\* C5: within one size-phase the graph is not modified while edges are
\* scanned: during the scan the graph is the one the phase started with,
\* marked edges included, it lacks every edge removed at a smaller size, and
\* the pool of a scanned edge is the one that graph gives.
C5_GraphFrozenDuringPhase ==
    pc = "scan" =>
       /\ G = Range(edges)
       /\ Range(rm) \subseteq G
       /\ \A r \in Range(details) :
            (r.Removed /\ r.Cond_Size < sz) => <<r.Node1, r.Node2>> \notin G
       /\ trace.u # 0 =>
            Range(trace.nbrs) = Pool(Range(edges), trace.u, trace.v)
C5_Witness ==
    /\ pc = "scan"
    /\ sz = 1
    /\ rm # <<>>
    /\ scanned # 1..Len(edges)
    /\ G # AllPairs

\* C6: for a fixed graph at the start of a size-phase, the edges removed in
\* the phase and the separating set recorded for each are the same for every
\* scan order: a second invocation in the same process that scans each
\* phase in an arbitrary order ends every phase with the removals and the
\* separating sets of the first, which scanned in list order.
PhaseScanned == pc = "scan" /\ scanned = 1..Len(edges)
C6_ScanOrderIrrelevant ==
    (run = 2 /\ PhaseScanned) =>
       /\ Range(rm) = {e \in AllPairs :
                          e \in DOMAIN prev.sep /\ Len(prev.sep[e]) = sz}
       /\ \A e \in Range(rm) :
            /\ sep[e] = prev.sep[e]
            /\ sep[<<e[2], e[1]>>] = prev.sep[<<e[2], e[1]>>]
C6_Witness ==
    /\ run = 2
    /\ PhaseScanned
    /\ sz = 1
    /\ Len(rm) = 3
    /\ ~LexLeq(rm[1], rm[2])
    /\ \E e \in Range(rm) : sep[e] # <<e[2]>>

\* C7: at the end of every size-phase and when edge removal has finished,
\* the separation-set table has an entry for the ordered pair (u, v) if and
\* only if edge u-v has been removed from the graph, and the entries for
\* (u, v) and (v, u) are the same.
PhaseBoundary == RemovalFinished \/ (pc = "scan" /\ scanned = {})
C7_SepEntriesIffRemoved ==
    PhaseBoundary =>
       \A a, b \in Nodes :
          a # b =>
             /\ <<a, b>> \in DOMAIN sep <=> ~HasEdge(G, a, b)
             /\ <<a, b>> \in DOMAIN sep =>
                  (<<b, a>> \in DOMAIN sep /\ sep[<<a, b>>] = sep[<<b, a>>])
C7_Witness ==
    /\ pc = "scan"
    /\ scanned = {}
    /\ sz = 1
    /\ DOMAIN sep # {}
    /\ G # {}

\* C8: in the returned directed graph, for every skeleton edge k-i the arc
\* k->i is absent if and only if some node j makes i-k-j an unshielded
\* triple with k outside the separating set recorded for (i, j); every other
\* arc of the bidirected skeleton is present.
Unshielded(i, k, j) ==
    /\ i # j
    /\ HasEdge(G, k, i)
    /\ HasEdge(G, k, j)
    /\ ~HasEdge(G, i, j)
C8_ArcAbsentIffCollider ==
    pc = "done" =>
       /\ DG \subseteq Bidirected(G)
       /\ \A k, i \in Nodes :
            HasEdge(G, k, i) =>
               (<<k, i>> \notin DG <=>
                  \E j \in Nodes :
                     Unshielded(i, k, j) /\ k \notin Range(SepGet(sep, i, j)))
C8_Witness ==
    /\ pc = "done"
    /\ \E e \in G : <<e[1], e[2]>> \in DG /\ <<e[2], e[1]>> \notin DG
    /\ \E e \in G : <<e[1], e[2]>> \in DG /\ <<e[2], e[1]>> \in DG

\* C9: the detail table has, for each feature pair, exactly one row from
\* size 0 (Removed with Cond_Size 0 and the empty set if the unconditional
\* test declared independence, else not Removed with Cond_Size -1), plus
\* exactly one Removed row with Cond_Size the size of the recorded
\* separating set for each edge removed at a size >= 1; no pair has two
\* Removed rows and Cond_Size is -1 exactly on the rows that are not Removed.
RowsOf(e) ==
    {k \in DOMAIN details : details[k].Node1 = e[1] /\ details[k].Node2 = e[2]}
C9_DetailRows ==
    RemovalFinished =>
       /\ \A k \in DOMAIN details :
            /\ <<details[k].Node1, details[k].Node2>> \in AllPairs
            /\ details[k].Cond_Size = -1 <=> ~details[k].Removed
       /\ \A e \in AllPairs :
            LET zero == {k \in RowsOf(e) : details[k].Cond_Size \in {0, -1}}
                later == {k \in RowsOf(e) : details[k].Cond_Size >= 1}
                removedLater == e \in DOMAIN sep /\ Len(sep[e]) >= 1
            IN /\ Cardinality(zero) = 1
               /\ \A k \in zero :
                    IF details[k].P > alpha
                    THEN /\ details[k].Removed
                         /\ details[k].Cond_Size = 0
                         /\ details[k].Cond_Set = <<>>
                    ELSE /\ ~details[k].Removed
                         /\ details[k].Cond_Size = -1
               /\ Cardinality(later) = IF removedLater THEN 1 ELSE 0
               /\ \A k \in later :
                    /\ details[k].Removed
                    /\ details[k].Cond_Size = Len(sep[e])
                    /\ details[k].Cond_Set = sep[e]
               /\ Cardinality({k \in RowsOf(e) : details[k].Removed}) <= 1
C9_Witness ==
    /\ RemovalFinished
    /\ \E e \in AllPairs : Cardinality(RowsOf(e)) = 2
    /\ \E e \in AllPairs : Cardinality(RowsOf(e)) = 1 /\ e \in DOMAIN sep

\* C10: two invocations of pc_skeleton with the same matrix, feature list,
\* alpha and max_cond return the same edge set and the same detail table.
C10_SameOutputsOnReinvocation ==
    (run = 2 /\ pc = "done") => (DG = prev.DG /\ details = prev.details)

(***************************************************************************)
(* Part 2: _ci_test on data (causal/discovery.py).                         *)
(*                                                                         *)
(* The data frame enters as the contingency tables of columns i and j:    *)
(* one table of all rows when S is empty, one table per group of          *)
(* df.groupby(key) otherwise (groupby yields non-empty groups only).  A    *)
(* table maps <<x, y>> to the number of rows with i = x and j = y.  The    *)
(* p-value scipy computes from a table or a statistic is chosen on the     *)
(* grid 0..MaxP when the call is made; sums of the CMH statistic are       *)
(* exact fractions.                                                        *)
(***************************************************************************)
MaxCell == 1      \* largest count in one cell of a table
MaxStrata == 2    \* largest number of groups of df.groupby(key)

\* pc_skeleton is not running while another function is called
NoPcSkeleton ==
    /\ features = <<>>
    /\ alpha = 0
    /\ max_cond = 0
    /\ G = {}
    /\ sep = <<>>
    /\ details = <<>>
    /\ sz = 0
    /\ edges = <<>>
    /\ scanned = {}
    /\ rm = <<>>
    /\ DG = {}
    /\ pc = "idle"
    /\ trace = NoTrace
    /\ everIndep = {}
    /\ second = "none"
    /\ run = 0
    /\ memo = <<>>
    /\ order = <<>>
    /\ prev = [DG |-> {}, details |-> <<>>, G |-> {}, sep |-> <<>>]

NotReturned == [ready |-> FALSE]

\* ---- exact fractions n/d, d > 0 ----------------------------------------
RECURSIVE Gcd(_, _)
Gcd(a, b) == IF b = 0 THEN a ELSE Gcd(b, a % b)
Abs(a) == IF a < 0 THEN 0 - a ELSE a

\* n/d in lowest terms
Frac(n, d) == [n |-> n \div Gcd(Abs(n), d), d |-> d \div Gcd(Abs(n), d)]
FAdd(x, y) == Frac(x.n * y.d + y.n * x.d, x.d * y.d)
FMul(x, y) == Frac(x.n * y.n, x.d * y.d)
FSub(x, y) == Frac(x.n * y.d - y.n * x.d, x.d * y.d)
FLeq(x, y) == x.n * y.d <= y.n * x.d
FEq(x, y) == x.n * y.d = y.n * x.d
FMin(x, y) == IF FLeq(x, y) THEN x ELSE y
FMax(x, y) == IF FLeq(x, y) THEN y ELSE x
FZero == Frac(0, 1)
FOne == Frac(1, 1)

\* ---- pd.crosstab --------------------------------------------------------
Bits == {0, 1}
Tables == [Bits \X Bits -> 0..MaxCell]
RowTotal(t, x) == t[<<x, 0>>] + t[<<x, 1>>]
ColTotal(t, y) == t[<<0, y>>] + t[<<1, y>>]
Size(t) == RowTotal(t, 0) + RowTotal(t, 1)

\* tab.shape: crosstab has a row (column) for each value of i (j) present
Shape(t) == <<Cardinality({x \in Bits : RowTotal(t, x) > 0}),
              Cardinality({y \in Bits : ColTotal(t, y) > 0})>>

\* (exp < 5).any(), exp the outer product of the margins over the total
UsesFisher(t) ==
    \E x \in Bits, y \in Bits : RowTotal(t, x) * ColTotal(t, y) < 5 * Size(t)

\* ---- the unconditional test --------------------------------------------
\* p is the p-value fisher_exact or chi2_contingency gives for a 2x2
\* table; any other table has no degree of freedom (chi2_contingency
\* gives 1.0) or is empty (chi2_contingency raises, p = 1.0)
Unconditional(t, a, p) ==
    IF Shape(t) = <<2, 2>>
    THEN [ready |-> TRUE, raised |-> FALSE, indep |-> p > a, p |-> p,
          branch |-> IF UsesFisher(t) THEN "fisher" ELSE "chi2", used |-> {}]
    ELSE [ready |-> TRUE, raised |-> FALSE, indep |-> MaxP > a, p |-> MaxP,
          branch |-> "fallback", used |-> {}]

\* ---- the stratified CMH test -------------------------------------------
\* (mutant) only the size of the stratum is looked at
StratumSkippedSizeOnly(t) == Size(t) < 2

\* if tab.shape != (2, 2): continue ... if n < 2: continue
StratumSkipped(t) == Shape(t) # <<2, 2>> \/ Size(t) < 2

\* num += a - (a + b) * (a + c) / n
CmhNum(t) ==
    Frac(t[<<0, 0>>] * Size(t) - RowTotal(t, 0) * ColTotal(t, 0), Size(t))

\* den += (a + b) * (c + d) * (a + c) * (b + d) / (n**2 * (n - 1))
CmhDen(t) ==
    Frac(RowTotal(t, 0) * RowTotal(t, 1) * ColTotal(t, 0) * ColTotal(t, 1),
         Size(t) * Size(t) * (Size(t) - 1))

\* the loop over the strata; tab.values[0, 1] and its like raise on a
\* table that is not 2x2
RECURSIVE Pooled(_, _)
Pooled(strata, k) ==
    IF k = 0
    THEN [num |-> FZero, den |-> FZero, used |-> {}, raised |-> FALSE]
    ELSE LET acc == Pooled(strata, k - 1)
             t == strata[k]
         IN IF acc.raised \/ StratumSkipped(t) THEN acc
            ELSE IF Shape(t) # <<2, 2>>
            THEN [acc EXCEPT !.raised = TRUE]
            ELSE [num |-> FAdd(acc.num, CmhNum(t)),
                  den |-> FAdd(acc.den, CmhDen(t)),
                  used |-> acc.used \cup {k}, raised |-> FALSE]

\* (mutant) the degenerate result is "dependent"
DegenerateResultDependent ==
    [ready |-> TRUE, raised |-> FALSE, indep |-> FALSE, p |-> MaxP,
     branch |-> "degenerate", used |-> {}]

\* if den <= 0: return True, 1.0
DegenerateResult ==
    [ready |-> TRUE, raised |-> FALSE, indep |-> TRUE, p |-> MaxP,
     branch |-> "degenerate", used |-> {}]

\* p is the p-value 1 - chi2_dist.cdf(stat, 1)
Conditional(strata, a, p) ==
    LET acc == Pooled(strata, Len(strata))
    IN IF acc.raised
       THEN [ready |-> TRUE, raised |-> TRUE, indep |-> FALSE, p |-> 0,
             branch |-> "raised", used |-> acc.used]
       ELSE IF FLeq(acc.den, FZero)
       THEN [DegenerateResult EXCEPT !.used = acc.used]
       ELSE [ready |-> TRUE, raised |-> FALSE, indep |-> p > a, p |-> p,
             branch |-> "cmh", used |-> acc.used]

CiTestOnData(cond, strata, a, p) ==
    IF ~cond THEN Unconditional(strata[1], a, p)
    ELSE Conditional(strata, a, p)

NonEmptyTables == {t \in Tables : Size(t) > 0}

CiTestInputs ==
    {[cond |-> FALSE, strata |-> <<t>>, alpha |-> a] :
        t \in Tables, a \in 0..MaxP}
    \cup
    {[cond |-> TRUE, strata |-> s, alpha |-> a] :
        s \in UNION {[1..k -> NonEmptyTables] : k \in 1..MaxStrata},
        a \in 0..MaxP}

InitCiTest ==
    /\ NoPcSkeleton
    /\ fn = "_ci_test"
    /\ inp \in CiTestInputs
    /\ out = NotReturned

CallCiTest ==
    /\ fn = "_ci_test"
    /\ ~out.ready
    /\ \E p \in PVals : out' = CiTestOnData(inp.cond, inp.strata, inp.alpha, p)
    /\ UNCHANGED <<fn, inp>>
    /\ UNCHANGED pcVars

NextCiTest == CallCiTest
SpecCiTest == InitCiTest /\ [][NextCiTest]_vars

\* ==== claims about _ci_test ==============================================
CiTestReturned == fn = "_ci_test" /\ out.ready

\* C11 (as stated): _ci_test returns independent = True exactly when the
\* p-value it returns is above alpha, for every input and every alpha.
C11_IndependentIffPAboveAlpha ==
    CiTestReturned => (out.indep <=> out.p > inp.alpha)

\* C11 (amended): _ci_test returns independent = True exactly when the
\* p-value it returns is above alpha or the pooled denominator of the
\* stratified test is not positive; in the latter case it returns
\* (True, 1.0) whatever alpha is.
C11_IndependentIffPAboveAlphaOrDegenerate ==
    CiTestReturned =>
        /\ out.indep <=> (out.p > inp.alpha \/ out.branch = "degenerate")
        /\ out.branch = "degenerate" => out.p = MaxP

C11_Witness ==
    /\ CiTestReturned
    /\ out.branch = "degenerate"
    /\ inp.alpha = MaxP
    /\ out.indep

\* the strata of the call that are 2x2 tables of at least two rows
Testable ==
    {k \in DOMAIN inp.strata :
        Shape(inp.strata[k]) = <<2, 2>> /\ Size(inp.strata[k]) >= 2}

\* C12: _ci_test never raises on binary input.  In the conditional case
\* exactly the strata that are 2x2 tables of at least two rows enter the
\* pooled sums, and when the pooled denominator is not positive the result
\* is (True, 1.0); in the unconditional case a table that is not 2x2
\* yields p = 1.0.
C12_NeverRaises ==
    CiTestReturned =>
        /\ ~out.raised
        /\ inp.cond => out.used = Testable
        /\ (inp.cond /\ Testable = {}) => (out.indep /\ out.p = MaxP)
        /\ (~inp.cond /\ Shape(inp.strata[1]) # <<2, 2>>) => out.p = MaxP

C12_Witness ==
    /\ CiTestReturned
    /\ inp.cond
    /\ Len(inp.strata) = 2
    /\ out.used = {2}
    /\ ~out.raised

(***************************************************************************)
(* Part 3: build_class_matrix and identify_mdr (mdr/classification.py).    *)
(*                                                                         *)
(* Drugs and classes are numbered; the phenotype frame has the columns     *)
(* 1..n of the drugs and one row per isolate of its index; a cell is NA    *)
(* or a number.  class_to_drugs lists the classes in the order of the      *)
(* dict, each with its list of drugs.                                      *)
(***************************************************************************)
NA == -1            \* pd.NA
MaxRaw == 2         \* largest number in a cell of the phenotype frame
NumDrugs == 3       \* drugs a class can list
NumClasses == 2     \* classes of class_to_drugs
NumIsolates == 1    \* rows of the phenotype frame

RawVals == {NA} \cup (0..MaxRaw)

\* _to_binary on a numeric column: NA stays, (x > 0) otherwise
ToBinary(x) == IF x = NA THEN NA ELSE IF x > 0 THEN 1 ELSE 0

Count(v, x) == Cardinality({k \in DOMAIN v : v[k] = x})
NResistant(v) == Count(v, 1)
NSusceptible(v) == Count(v, 0)
NTested(v) == NResistant(v) + NSusceptible(v)
AllTested(v) == NTested(v) = Len(v)

\* s = NA; s.loc[pos] = 1; s.loc[neg & ~pos] = 0
Assign(pos, neg) ==
    LET s1 == IF pos THEN 1 ELSE NA
    IN IF neg /\ ~pos THEN 0 ELSE s1

\* (mutant) susceptible as soon as no tested drug is resistant
RuleAnyNoneResistant(v) == Assign(NResistant(v) >= 1, NResistant(v) = 0)

RuleAny(v) ==
    Assign(NResistant(v) >= 1, AllTested(v) /\ NResistant(v) = 0)

RuleAll(v) ==
    Assign(AllTested(v) /\ NResistant(v) = Len(v),
           AllTested(v) /\ NSusceptible(v) >= 1)

\* (mutant) half of the tested drugs is enough
RuleMajorityAtLeastHalf(v) ==
    Assign(NTested(v) > 0 /\ 2 * NResistant(v) >= NTested(v),
           AllTested(v) /\ 2 * NResistant(v) <= NTested(v))

\* n_resistant > n_tested / 2 is 2 * n_resistant > n_tested
RuleMajority(v) ==
    Assign(NTested(v) > 0 /\ 2 * NResistant(v) > NTested(v),
           AllTested(v) /\ 2 * NResistant(v) <= NTested(v))

\* the if / elif chain on class_rule; s stays NA when no branch is taken
ClassCall(rule, v) ==
    CASE rule = "any" -> RuleAny(v)
      [] rule = "all" -> RuleAll(v)
      [] rule = "majority" -> RuleMajority(v)
      [] OTHER -> NA

\* (mutant) every rule name is accepted
ValidRuleAnyName(rule) == TRUE

\* class_rule in _valid_rules
ValidRule(rule) == rule \in {"any", "all", "majority"}

\* present = [d for d in drugs if d in ph.columns]
Present(drugs, ncols) == SelectSeq(drugs, LAMBDA d : d \in 1..ncols)

\* ph[present] of one row
RowVals(row, present) == [k \in DOMAIN present |-> ToBinary(row[present[k]])]

\* the classes that get a column, in the order of class_to_drugs
RECURSIVE ColumnsUpTo(_, _, _)
ColumnsUpTo(cmap, ncols, c) ==
    IF c = 0 THEN <<>>
    ELSE IF Present(cmap[c], ncols) = <<>>
    THEN ColumnsUpTo(cmap, ncols, c - 1)
    ELSE Append(ColumnsUpTo(cmap, ncols, c - 1), c)

BuildClassMatrix(i) ==
    IF ~ValidRule(i.rule)
    THEN [ready |-> TRUE, raised |-> TRUE, aggregated |-> {},
          index |-> <<>>, columns |-> <<>>, data |-> <<>>]
    ELSE LET columns == ColumnsUpTo(i.class_to_drugs, i.ncols,
                                    Len(i.class_to_drugs))
         IN [ready |-> TRUE, raised |-> FALSE,
             aggregated |-> Range(columns),
             index |-> i.index,
             columns |-> columns,
             data |-> [c \in Range(columns) |->
                         [r \in DOMAIN i.index |->
                            ClassCall(i.rule,
                                RowVals(i.pheno[r],
                                    Present(i.class_to_drugs[c], i.ncols)))]]]

\* the ascending list of a set of drugs
SortedList(S) ==
    CHOOSE s \in [1..Cardinality(S) -> S] :
        \A a, b \in DOMAIN s : a < b => s[a] < s[b]

DrugLists == {SortedList(S) : S \in SUBSET (1..NumDrugs)}

RuleNames == {"any", "all", "majority", "median"}

ClassMatrixInputs ==
    UNION {
        [pheno : [1..NumIsolates -> [1..n -> RawVals]],
         ncols : {n},
         index : {[r \in 1..NumIsolates |-> r]},
         class_to_drugs : [1..NumClasses -> DrugLists],
         rule : RuleNames] : n \in 0..NumDrugs}

InitClassMatrix ==
    /\ NoPcSkeleton
    /\ fn = "build_class_matrix"
    /\ inp \in ClassMatrixInputs
    /\ out = NotReturned

CallBuildClassMatrix ==
    /\ fn = "build_class_matrix"
    /\ ~out.ready
    /\ out' = BuildClassMatrix(inp)
    /\ UNCHANGED <<fn, inp>>
    /\ UNCHANGED pcVars

NextClassMatrix == CallBuildClassMatrix
SpecClassMatrix == InitClassMatrix /\ [][NextClassMatrix]_vars

\* ==== claims about build_class_matrix ====================================
ClassMatrixReturned == fn = "build_class_matrix" /\ out.ready /\ ~out.raised

\* the 0/1/NA calls of the matched drugs of class c for row r
Matched(c, r) ==
    RowVals(inp.pheno[r], Present(inp.class_to_drugs[c], inp.ncols))

\* the cells of the returned matrix
Cells == {cr \in Range(out.columns) \X DOMAIN out.index : TRUE}

SomeResistant(v) == \E k \in DOMAIN v : v[k] = 1
SomeSusceptible(v) == \E k \in DOMAIN v : v[k] = 0
SomeUntested(v) == \E k \in DOMAIN v : v[k] = NA

\* C13: under rule 'any' a class call is 1 exactly when at least one
\* matched drug is resistant, 0 exactly when all matched drugs are tested
\* and none is resistant, and missing otherwise.
C13_RuleAny ==
    (ClassMatrixReturned /\ inp.rule = "any") =>
        \A cr \in Cells :
            LET v == Matched(cr[1], cr[2])
                call == out.data[cr[1]][cr[2]]
            IN /\ call = 1 <=> SomeResistant(v)
               /\ call = 0 <=> (~SomeUntested(v) /\ ~SomeResistant(v))
               /\ call \in {0, 1, NA}

C13_Witness ==
    /\ ClassMatrixReturned
    /\ inp.rule = "any"
    /\ \E cr \in Cells :
          /\ SomeResistant(Matched(cr[1], cr[2]))
          /\ SomeUntested(Matched(cr[1], cr[2]))
          /\ out.data[cr[1]][cr[2]] = 1
    /\ \E cr \in Cells :
          /\ ~SomeResistant(Matched(cr[1], cr[2]))
          /\ SomeUntested(Matched(cr[1], cr[2]))
          /\ out.data[cr[1]][cr[2]] = NA

\* C14: under rule 'all' a class call is 1 exactly when all matched drugs
\* are tested and all are resistant, 0 whenever at least one tested drug
\* is susceptible (whether or not other drugs are untested), and missing
\* otherwise.
C14_RuleAll ==
    (ClassMatrixReturned /\ inp.rule = "all") =>
        \A cr \in Cells :
            LET v == Matched(cr[1], cr[2])
                call == out.data[cr[1]][cr[2]]
            IN /\ call = 1 <=> (\A k \in DOMAIN v : v[k] = 1)
               /\ SomeSusceptible(v) => call = 0
               /\ (~SomeSusceptible(v) /\ SomeUntested(v)) => call = NA

Fillings(v) ==
    {w \in [DOMAIN v -> {0, 1}] : \A k \in DOMAIN v : v[k] # NA => w[k] = v[k]}

\* C16: for each rule, a non-missing class call returned while some matched
\* drug is untested equals the call the rule gives for every filling of
\* the untested drugs with 0 or 1.
C16_CallSurvivesEveryFilling ==
    ClassMatrixReturned =>
        \A cr \in Cells :
            LET v == Matched(cr[1], cr[2])
                call == out.data[cr[1]][cr[2]]
            IN (call # NA /\ SomeUntested(v)) =>
                  \A w \in Fillings(v) : ClassCall(inp.rule, w) = call

\* the classes with at least one drug among the columns
MatchedClasses ==
    {c \in DOMAIN inp.class_to_drugs :
        \E k \in DOMAIN inp.class_to_drugs[c] :
            inp.class_to_drugs[c][k] \in 1..inp.ncols}

\* C17: build_class_matrix raises the invalid-rule error exactly when the
\* rule is not any, all or majority, before any class is aggregated; a
\* class with no drug among the columns gives no output column and no
\* error; every class with a matched drug gives exactly one column, over
\* the row index of the input.
C17_InvalidRuleAndColumns ==
    (fn = "build_class_matrix" /\ out.ready) =>
        /\ out.raised <=> inp.rule \notin {"any", "all", "majority"}
        /\ out.raised => out.aggregated = {}
        /\ ~out.raised =>
              /\ Range(out.columns) = MatchedClasses
              /\ \A a, b \in DOMAIN out.columns :
                    out.columns[a] = out.columns[b] => a = b
              /\ DOMAIN out.data = MatchedClasses
              /\ out.index = inp.index
              /\ \A c \in MatchedClasses : DOMAIN out.data[c] = DOMAIN inp.index

C17_Witness ==
    /\ ClassMatrixReturned
    /\ Len(out.columns) = 1
    /\ MatchedClasses = {2}
    /\ inp.class_to_drugs[1] # <<>>

\* ---- identify_mdr --------------------------------------------------------
MaxClasses == 3      \* columns of a class frame
MaxThreshold == 3    \* largest threshold a call is given

CallVals == {NA, 0, 1}

\* class frames: one row of class calls per isolate
ClassFrames(rows) ==
    UNION {[1..rows -> [1..n -> CallVals]] : n \in 0..MaxClasses}

\* (mutant) the threshold has to be exceeded
IdentifyMdrRowStrict(v, threshold) ==
    LET min_res == Count(v, 1)
        max_res == min_res + Count(v, NA)
        o1 == IF min_res > threshold THEN "True" ELSE "False"
        o2 == IF max_res < threshold THEN "False" ELSE o1
    IN IF min_res <= threshold /\ max_res >= threshold THEN "NA" ELSE o2

\* out = False; out[min_res >= threshold] = True;
\* out[max_res < threshold] = False;
\* out[(min_res < threshold) & (max_res >= threshold)] = pd.NA
IdentifyMdrRow(v, threshold) ==
    LET min_res == Count(v, 1)
        max_res == min_res + Count(v, NA)
        o1 == IF min_res >= threshold THEN "True" ELSE "False"
        o2 == IF max_res < threshold THEN "False" ELSE o1
    IN IF min_res < threshold /\ max_res >= threshold THEN "NA" ELSE o2

IdentifyMdr(i) ==
    [ready |-> TRUE,
     mdr |-> [r \in DOMAIN i.class_df |->
                IdentifyMdrRow(i.class_df[r], i.threshold)]]

InitIdentifyMdr ==
    /\ NoPcSkeleton
    /\ fn = "identify_mdr"
    /\ inp \in [class_df : ClassFrames(NumIsolates),
                threshold : 0..MaxThreshold]
    /\ out = NotReturned

CallIdentifyMdr ==
    /\ fn = "identify_mdr"
    /\ ~out.ready
    /\ out' = IdentifyMdr(inp)
    /\ UNCHANGED <<fn, inp>>
    /\ UNCHANGED pcVars

NextIdentifyMdr == CallIdentifyMdr
SpecIdentifyMdr == InitIdentifyMdr /\ [][NextIdentifyMdr]_vars

\* ==== claims about identify_mdr ==========================================
KnownResistant(v) == Cardinality({k \in DOMAIN v : v[k] = 1})
Missing(v) == Cardinality({k \in DOMAIN v : v[k] = NA})

\* C18: identify_mdr returns True exactly when the count of known-resistant
\* classes reaches the threshold, False exactly when known-resistant plus
\* missing classes stay below the threshold, and missing otherwise; it is
\* never False when the known-resistant count meets the threshold.
C18_IdentifyMdr ==
    (fn = "identify_mdr" /\ out.ready) =>
        \A r \in DOMAIN inp.class_df :
            LET v == inp.class_df[r]
                known == KnownResistant(v)
                reach == known + Missing(v)
            IN /\ out.mdr[r] = "True" <=> known >= inp.threshold
               /\ out.mdr[r] = "False" <=> reach < inp.threshold
               /\ out.mdr[r] = "NA" <=>
                     (known < inp.threshold /\ reach >= inp.threshold)
               /\ known >= inp.threshold => out.mdr[r] # "False"

C18_Witness ==
    /\ fn = "identify_mdr"
    /\ out.ready
    /\ \E r \in DOMAIN inp.class_df :
          /\ KnownResistant(inp.class_df[r]) = inp.threshold
          /\ Missing(inp.class_df[r]) >= 1
          /\ inp.threshold >= 2
          /\ out.mdr[r] = "True"

(***************************************************************************)
(* Part 4: _posterior_mdr_prob and next_best_test_evpi                     *)
(* (mdr/decision_v3.py).  Probabilities, costs and risks are exact         *)
(* fractions.                                                              *)
(***************************************************************************)
PriorSteps == 2      \* priors given to _posterior_mdr_prob: k/PriorSteps
EvpiClasses == 2     \* columns of the class frame given to next_best_test_evpi
EvpiIsolates == 3    \* rows of the class frame given to next_best_test_evpi
MaxTestCost == 2     \* largest test cost of a class

FnCostDefault == 5   \* fn_cost: float = 5.0
FpCostDefault == 1   \* fp_cost: float = 1.0

Half == Frac(1, 2)
PriorVals == {Frac(k, PriorSteps) : k \in 0..PriorSteps}

\* (mutant) a class without prior counts as never resistant
PriorOfDefaultZero(prior, c) == IF c \in DOMAIN prior THEN prior[c] ELSE FZero

\* (missing_prior or {}).get(c, 0.5)
PriorOf(prior, c) == IF c \in DOMAIN prior THEN prior[c] ELSE Half

\* missing = [k for k, v in vals.items() if pd.isna(v)]
MissingList(row) ==
    SelectSeq([k \in DOMAIN row |-> k], LAMBDA c : row[c] = NA)

\* (mask >> i) & 1, i counted from 0
MaskBit(mask, i) == (mask \div (2 ^ i)) % 2

\* the inner loop over enumerate(missing), after its first k iterations
RECURSIVE MaskLoop(_, _, _, _, _)
MaskLoop(mask, missing, prior, known_pos, k) ==
    IF k = 0 THEN [kk |-> known_pos, pr |-> FOne]
    ELSE LET acc == MaskLoop(mask, missing, prior, known_pos, k - 1)
             p_c == PriorOf(prior, missing[k])
         IN IF MaskBit(mask, k - 1) = 1
            THEN [kk |-> acc.kk + 1, pr |-> FMul(acc.pr, p_c)]
            ELSE [kk |-> acc.kk, pr |-> FMul(acc.pr, FSub(FOne, p_c))]

\* the outer loop over range(1 << len(missing)), after the masks 0..n-1
RECURSIVE MaskSum(_, _, _, _, _)
MaskSum(n, missing, prior, known_pos, threshold) ==
    IF n = 0 THEN FZero
    ELSE LET p == MaskSum(n - 1, missing, prior, known_pos, threshold)
             t == MaskLoop(n - 1, missing, prior, known_pos, Len(missing))
         IN IF t.kk >= threshold THEN FAdd(p, t.pr) ELSE p

PosteriorMdrProb(row, threshold, prior) ==
    LET known_pos == Count(row, 1)
        missing == MissingList(row)
    IN IF known_pos >= threshold THEN FOne
       ELSE IF known_pos + Len(missing) < threshold THEN FZero
       ELSE FMin(FMax(MaskSum(2 ^ Len(missing), missing, prior, known_pos,
                              threshold),
                      FZero),
                 FOne)

\* the priors a call may be given: none, or a prior for some classes
PriorDicts(n) == UNION {[S -> PriorVals] : S \in SUBSET (1..n)}

PosteriorInputs ==
    UNION {[row : [1..n -> CallVals],
            threshold : 0..MaxThreshold,
            missing_prior : PriorDicts(n)] : n \in 0..MaxClasses}

InitPosterior ==
    /\ NoPcSkeleton
    /\ fn = "_posterior_mdr_prob"
    /\ inp \in PosteriorInputs
    /\ out = NotReturned

CallPosterior ==
    /\ fn = "_posterior_mdr_prob"
    /\ ~out.ready
    /\ out' = [ready |-> TRUE,
               p |-> PosteriorMdrProb(inp.row, inp.threshold, inp.missing_prior)]
    /\ UNCHANGED <<fn, inp>>
    /\ UNCHANGED pcVars

NextPosterior == CallPosterior
SpecPosterior == InitPosterior /\ [][NextPosterior]_vars

\* ---- next_best_test_evpi -------------------------------------------------
\* class_df.mean(skipna=True).fillna(0.5)
Prevalence(class_df, c) ==
    LET known == {r \in DOMAIN class_df : class_df[r][c] # NA}
        ones == {r \in known : class_df[r][c] = 1}
    IN IF known = {} THEN Half ELSE Frac(Cardinality(ones), Cardinality(known))

\* costs = {c: 1.0 ...}, overwritten from test_costs; a cost of at least
\* 1 is what max(float(v), 1e-9) leaves it
CostOf(test_costs, c) ==
    IF c \in DOMAIN test_costs THEN Frac(test_costs[c], 1) ELSE FOne

\* (mutant) the larger of the two expected losses
BayesRiskWorst(p, fn_cost, fp_cost) ==
    FMax(FMul(p, Frac(fn_cost, 1)), FMul(FSub(FOne, p), Frac(fp_cost, 1)))

\* min(p * fn_cost, (1 - p) * fp_cost)
BayesRisk(p, fn_cost, fp_cost) ==
    FMin(FMul(p, Frac(fn_cost, 1)), FMul(FSub(FOne, p), Frac(fp_cost, 1)))

\* the body of `for c in miss` for the row of isolate r
EvpiRow(i, prevs, r, c) ==
    LET row == i.class_df[r]
        p_mdr == PosteriorMdrProb(row, i.mdr_threshold, prevs)
        risk0 == BayesRisk(p_mdr, i.fn_cost, i.fp_cost)
        p_c == PriorOf(prevs, c)
        p1 == PosteriorMdrProb([row EXCEPT ![c] = 1], i.mdr_threshold, prevs)
        p0 == PosteriorMdrProb([row EXCEPT ![c] = 0], i.mdr_threshold, prevs)
        risk_after ==
            FAdd(FMul(p_c, BayesRisk(p1, i.fn_cost, i.fp_cost)),
                 FMul(FSub(FOne, p_c), BayesRisk(p0, i.fn_cost, i.fp_cost)))
        evpi == FMax(FSub(risk0, risk_after), FZero)
        cost == CostOf(i.test_costs, c)
    IN [Strain_ID |-> r, Candidate_Test_Class |-> c, Current_pMDR |-> p_mdr,
        Current_BayesRisk |-> risk0,
        Expected_BayesRisk_AfterTest |-> risk_after,
        EVPI_RiskReduction |-> evpi, Test_Cost |-> cost,
        EVPI_per_Cost |-> FMul(evpi, Frac(cost.d, cost.n)),
        Class_Prevalence |-> p_c]

\* the rows appended for isolate r
IsolateRows(i, prevs, r) ==
    LET miss == MissingList(i.class_df[r])
    IN [k \in DOMAIN miss |-> EvpiRow(i, prevs, r, miss[k])]

\* the list `rows` after the isolates 1..r
RECURSIVE RowsUpTo(_, _, _)
RowsUpTo(i, prevs, r) ==
    IF r = 0 THEN <<>>
    ELSE RowsUpTo(i, prevs, r - 1) \o IsolateRows(i, prevs, r)

\* sort_values(['Strain_ID', 'EVPI_per_Cost', 'EVPI_RiskReduction'],
\*             ascending=[True, False, False]): a comes strictly before b
RowBefore(a, b) ==
    \/ a.Strain_ID < b.Strain_ID
    \/ /\ a.Strain_ID = b.Strain_ID
       /\ ~FLeq(a.EVPI_per_Cost, b.EVPI_per_Cost)
    \/ /\ a.Strain_ID = b.Strain_ID
       /\ FEq(a.EVPI_per_Cost, b.EVPI_per_Cost)
       /\ ~FLeq(a.EVPI_RiskReduction, b.EVPI_RiskReduction)

\* x put after the last row it does not come strictly before
InsertRow(sorted, x) ==
    LET keep == {k \in DOMAIN sorted : ~RowBefore(x, sorted[k])}
        at == IF keep = {} THEN 0 ELSE Max(keep)
    IN SubSeq(sorted, 1, at) \o <<x>> \o SubSeq(sorted, at + 1, Len(sorted))

RECURSIVE SortRows(_, _)
SortRows(rows, k) ==
    IF k = 0 THEN <<>> ELSE InsertRow(SortRows(rows, k - 1), rows[k])

NextBestTestEvpi(i) ==
    LET ncls == IF Len(i.class_df) = 0 THEN 0 ELSE Len(i.class_df[1])
        prevs == [c \in 1..ncls |-> Prevalence(i.class_df, c)]
        rows == RowsUpTo(i, prevs, Len(i.class_df))
    IN [ready |-> TRUE,
        rows |-> IF ncls = 0 THEN <<>> ELSE SortRows(rows, Len(rows))]

CostVals == {FpCostDefault, FnCostDefault}

EvpiInputs ==
    UNION {[class_df : [1..EvpiIsolates -> [1..n -> CallVals]],
            mdr_threshold : 0..MaxThreshold,
            test_costs : {<<>>} \cup [1..n -> 1..MaxTestCost],
            fn_cost : CostVals,
            fp_cost : CostVals] : n \in 0..EvpiClasses}

InitEvpi ==
    /\ NoPcSkeleton
    /\ fn = "next_best_test_evpi"
    /\ inp \in EvpiInputs
    /\ out = NotReturned

CallEvpi ==
    /\ fn = "next_best_test_evpi"
    /\ ~out.ready
    /\ out' = NextBestTestEvpi(inp)
    /\ UNCHANGED <<fn, inp>>
    /\ UNCHANGED pcVars

NextEvpi == CallEvpi
SpecEvpi == InitEvpi /\ [][NextEvpi]_vars

\* ==== claims about the decision functions ================================
\* the sum of the values of a function to fractions
RECURSIVE FSumFn(_)
FSumFn(f) ==
    IF DOMAIN f = {} THEN FZero
    ELSE LET x == CHOOSE x \in DOMAIN f : TRUE
         IN FAdd(f[x], FSumFn([y \in DOMAIN f \ {x} |-> f[y]]))

\* the product of the values of a function to fractions
RECURSIVE FProdFn(_)
FProdFn(f) ==
    IF DOMAIN f = {} THEN FOne
    ELSE LET x == CHOOSE x \in DOMAIN f : TRUE
         IN FMul(f[x], FProdFn([y \in DOMAIN f \ {x} |-> f[y]]))

MissingClassesOf(row) == {c \in DOMAIN row : row[c] = NA}

GivenPrior(c) ==
    IF c \in DOMAIN inp.missing_prior THEN inp.missing_prior[c] ELSE Frac(1, 2)

\* the 0/1 assignments to the missing classes of the row that bring the
\* count of resistant classes to the threshold
Reaching ==
    {a \in [MissingClassesOf(inp.row) -> {0, 1}] :
        KnownResistant(inp.row)
            + Cardinality({c \in DOMAIN a : a[c] = 1}) >= inp.threshold}

\* the probability of an assignment: the product of each class's prior
\* if assigned resistant, of its complement otherwise
Weight(a) ==
    FProdFn([c \in DOMAIN a |->
                IF a[c] = 1 THEN GivenPrior(c) ELSE FSub(FOne, GivenPrior(c))])

\* C19: _posterior_mdr_prob returns 1 when the known-resistant count
\* reaches the threshold, 0 when known-resistant plus missing classes
\* stay below it, and otherwise the sum, over the 2^m assignments of the
\* m missing classes that reach the threshold, of the product of the
\* priors (complements for classes assigned susceptible), the prior being
\* 0.5 when none is given; the result lies in [0, 1].
C19_PosteriorMdrProb ==
    (fn = "_posterior_mdr_prob" /\ out.ready) =>
        LET known == KnownResistant(inp.row)
            m == Missing(inp.row)
        IN /\ known >= inp.threshold => FEq(out.p, FOne)
           /\ known + m < inp.threshold => FEq(out.p, FZero)
           /\ (known < inp.threshold /\ known + m >= inp.threshold) =>
                 FEq(out.p, FSumFn([a \in Reaching |-> Weight(a)]))
           /\ FLeq(FZero, out.p)
           /\ FLeq(out.p, FOne)

C19_Witness ==
    /\ fn = "_posterior_mdr_prob"
    /\ out.ready
    /\ Missing(inp.row) = 3
    /\ inp.threshold = 2
    /\ Cardinality(DOMAIN inp.missing_prior) = 2
    /\ FEq(out.p, Frac(3, 4))

\* the (isolate, class) pairs with a missing call
MissingPairs ==
    {rc \in (DOMAIN inp.class_df) \X (1..EvpiClasses) :
        /\ rc[2] \in DOMAIN inp.class_df[rc[1]]
        /\ inp.class_df[rc[1]][rc[2]] = NA}

\* min(p * fn_cost, (1 - p) * fp_cost) of the call
RiskAt(p) ==
    LET a == FMul(p, Frac(inp.fn_cost, 1))
        b == FMul(FSub(FOne, p), Frac(inp.fp_cost, 1))
    IN IF FLeq(a, b) THEN a ELSE b

\* the posterior of the row of a result row after its class is observed as x
PosteriorAfter(row, x) ==
    PosteriorMdrProb(
        [inp.class_df[row.Strain_ID] EXCEPT ![row.Candidate_Test_Class] = x],
        inp.mdr_threshold,
        [c \in 1..Len(inp.class_df[1]) |-> Prevalence(inp.class_df, c)])

\* C20: next_best_test_evpi gives exactly one row per (isolate, missing
\* class) pair and none for an isolate without missing class; in every
\* row Current_BayesRisk is min(p * fn_cost, (1 - p) * fp_cost), the
\* expected risk after the test is the prevalence-weighted average of
\* the risks after a resistant and after a susceptible result, and the
\* EVPI is max(current - expected, 0), so 0 <= EVPI <= Current_BayesRisk.
C20_EvpiRows ==
    (fn = "next_best_test_evpi" /\ out.ready) =>
        /\ {<<out.rows[k].Strain_ID, out.rows[k].Candidate_Test_Class>> :
                k \in DOMAIN out.rows} = MissingPairs
        /\ Len(out.rows) = Cardinality(MissingPairs)
        /\ \A k \in DOMAIN out.rows :
              LET row == out.rows[k]
                  p_c == row.Class_Prevalence
                  expected ==
                      FAdd(FMul(p_c, RiskAt(PosteriorAfter(row, 1))),
                           FMul(FSub(FOne, p_c), RiskAt(PosteriorAfter(row, 0))))
                  gain == FSub(row.Current_BayesRisk, expected)
              IN /\ FEq(row.Current_BayesRisk, RiskAt(row.Current_pMDR))
                 /\ FEq(p_c, Prevalence(inp.class_df, row.Candidate_Test_Class))
                 /\ FEq(row.Expected_BayesRisk_AfterTest, expected)
                 /\ FEq(row.EVPI_RiskReduction,
                        IF FLeq(gain, FZero) THEN FZero ELSE gain)
                 /\ FLeq(FZero, row.EVPI_RiskReduction)
                 /\ FLeq(row.EVPI_RiskReduction, row.Current_BayesRisk)

C20_Witness ==
    /\ fn = "next_best_test_evpi"
    /\ out.ready
    /\ MissingClassesOf(inp.class_df[1]) = {}
    /\ \E k \in DOMAIN out.rows :
          /\ ~FLeq(out.rows[k].EVPI_RiskReduction, FZero)
          /\ ~FLeq(out.rows[k].Current_BayesRisk,
                   out.rows[k].EVPI_RiskReduction)

(***************************************************************************)
(* Part 5: mdr_probability and mdr_spectrum (mdr/classification.py).       *)
(***************************************************************************)
\* np.convolve(a, b), full mode, on lists of fractions
Convolve(a, b) ==
    [k \in 1..(Len(a) + Len(b) - 1) |->
        FSumFn([i \in {x \in DOMAIN a : k + 1 - x \in DOMAIN b} |->
                    FMul(a[i], b[k + 1 - i])])]

\* (mutant) the chance of resistance weighs the count that does not grow
BernoulliSwapped(p) == <<p, FSub(FOne, p)>>

\* np.array([1.0 - p, p])
Bernoulli(p) == <<FSub(FOne, p), p>>

\* dist = [1.0]; for p in probs: dist = np.convolve(dist, [1.0 - p, p])
RECURSIVE CountDist(_, _)
CountDist(probs, k) ==
    IF k = 0 THEN <<FOne>>
    ELSE Convolve(CountDist(probs, k - 1), Bernoulli(probs[k]))

\* float(dist[need:].sum()) if need < len(dist) else 0.0; need counted from 0
TailMass(dist, need) ==
    IF need < Len(dist)
    THEN FSumFn([k \in (need + 1)..Len(dist) |-> dist[k]])
    ELSE FZero

\* probs = p_class[miss_cols]
MissingProbs(row, p_class) ==
    LET miss == MissingList(row)
    IN [k \in DOMAIN miss |-> p_class[miss[k]]]

\* the body of `for sid in class_df.index` for one row
ProbabilityRow(row, threshold, p_class) ==
    LET n_classes == Len(row)
        min_res == Count(row, 1)
        probs == MissingProbs(row, p_class)
        dist == CountDist(probs, Len(probs))
        need_mdr == Max({0, threshold - min_res})
        need_xdr == Max({0, (n_classes - 2) - min_res})
        need_pdr == Max({0, n_classes - min_res})
    IN [Observed_Resistant_Classes |-> min_res,
        Missing_Classes |-> Len(probs),
        P_MDR |-> TailMass(dist, need_mdr),
        P_XDR |-> TailMass(dist, need_xdr),
        P_PDR |-> TailMass(dist, need_pdr)]

\* a row, a threshold and a prior for every class of the row
TailMassInputs ==
    UNION {[row : [1..n -> CallVals],
            threshold : 0..MaxThreshold,
            priors : [1..n -> PriorVals]] : n \in 0..MaxClasses}

InitTailMass ==
    /\ NoPcSkeleton
    /\ fn = "tail_mass"
    /\ inp \in TailMassInputs
    /\ out = NotReturned

\* both routines are run on the row with the same priors
CallTailMass ==
    /\ fn = "tail_mass"
    /\ ~out.ready
    /\ out' = [ready |-> TRUE,
               enumerated |-> PosteriorMdrProb(inp.row, inp.threshold, inp.priors),
               convolved |-> ProbabilityRow(inp.row, inp.threshold, inp.priors).P_MDR]
    /\ UNCHANGED <<fn, inp>>
    /\ UNCHANGED pcVars

NextTailMass == CallTailMass
SpecTailMass == InitTailMass /\ [][NextTailMass]_vars

HyperClasses == 2     \* columns of the class frame
HyperIsolates == 3    \* rows of the class frame
MaxSupportDen == 3    \* min_support is k/d with d up to MaxSupportDen

\* round(x, digits) of Python and numpy: to the nearest multiple of
\* 10^-digits, a tie going to the even one
Round(x, digits) ==
    LET scale == 10 ^ digits
        q == (x.n * scale) \div x.d
        r == (x.n * scale) % x.d
        up == 2 * r > x.d \/ (2 * r = x.d /\ q % 2 = 1)
    IN Frac(IF up THEN q + 1 ELSE q, scale)

\* frozenset(c for c in class_df.columns if row[c] == 1)
Pattern(row) == {c \in DOMAIN row : row[c] = 1}

\* the rows kept by `if min_size <= len(fs) <= max_size`, in row order
Pats(class_df, min_size, max_size) ==
    LET all == [r \in DOMAIN class_df |-> Pattern(class_df[r])]
    IN SelectSeq(all, LAMBDA fs : /\ min_size <= Cardinality(fs)
                                  /\ Cardinality(fs) <= max_size)

CountOf(pats, fs) == Cardinality({k \in DOMAIN pats : pats[k] = fs})

\* the keys of Counter(pats): distinct patterns by first occurrence
CounterKeys(pats) ==
    LET firsts == {k \in DOMAIN pats : \A j \in 1..(k - 1) : pats[j] # pats[k]}
        at == SortedList(firsts)
    IN [i \in DOMAIN at |-> pats[at[i]]]

\* most_common(): sorted by count, largest first, ties in key order
InsertByCount(pats, sorted, fs) ==
    LET keep == {k \in DOMAIN sorted : CountOf(pats, sorted[k]) >= CountOf(pats, fs)}
        at == IF keep = {} THEN 0 ELSE Max(keep)
    IN SubSeq(sorted, 1, at) \o <<fs>> \o SubSeq(sorted, at + 1, Len(sorted))

RECURSIVE MostCommonUpTo(_, _, _)
MostCommonUpTo(pats, keys, k) ==
    IF k = 0 THEN <<>>
    ELSE InsertByCount(pats, MostCommonUpTo(pats, keys, k - 1), keys[k])

MostCommon(pats) == MostCommonUpTo(pats, CounterKeys(pats), Len(CounterKeys(pats)))

\* if sup >= min_support
SupportKept(sup, min_support) == FLeq(min_support, sup)

HyperedgeRow(pats, fs, n) ==
    [set |-> fs, Size |-> Cardinality(fs), Count |-> CountOf(pats, fs),
     Support |-> Round(Frac(CountOf(pats, fs), n), 4)]

ExtractHyperedges(i) ==
    IF \E r \in DOMAIN i.class_df : \E c \in DOMAIN i.class_df[r] :
           i.class_df[r][c] = NA
    THEN [ready |-> TRUE, raised |-> TRUE, rows |-> <<>>]
    ELSE LET n == Len(i.class_df)
             pats == Pats(i.class_df, i.min_size, i.max_size)
             common == MostCommon(pats)
             kept == SelectSeq(common,
                        LAMBDA fs : SupportKept(Frac(CountOf(pats, fs), n),
                                                i.min_support))
         IN [ready |-> TRUE, raised |-> FALSE,
             rows |-> [k \in DOMAIN kept |-> HyperedgeRow(pats, kept[k], n)]]

MinSupports ==
    {x \in {Frac(k, d) : k \in 0..MaxSupportDen, d \in 1..MaxSupportDen} :
        x.n <= x.d}

HyperedgeInputs ==
    [class_df : [1..HyperIsolates -> [1..HyperClasses -> CallVals]],
     min_size : 1..HyperClasses,
     max_size : 1..HyperClasses,
     min_support : MinSupports]

InitHypergraph ==
    /\ NoPcSkeleton
    /\ fn = "extract_hyperedges"
    /\ inp \in HyperedgeInputs
    /\ out = NotReturned

CallExtractHyperedges ==
    /\ fn = "extract_hyperedges"
    /\ ~out.ready
    /\ out' = ExtractHyperedges(inp)
    /\ UNCHANGED <<fn, inp>>
    /\ UNCHANGED pcVars

\* ---- hypergraph_centrality ---------------------------------------------
Measures == {"Degree", "Weighted_Degree", "Size_Weighted"}

\* what one hyperedge row adds to a measure of a class it contains
Gain(measure, r) ==
    CASE measure = "Degree" -> FOne
      [] measure = "Weighted_Degree" -> r.Support
      [] measure = "Size_Weighted" -> FMul(r.Support, Frac(r.Size, 1))

\* deg[c], wd[c], swd[c] after the loop over the hyperedges
Accumulated(hedges, measure, c) ==
    FSumFn([k \in {j \in DOMAIN hedges : c \in hedges[j].set} |->
                Gain(measure, hedges[k])])

\* the column of a measure: Degree as counted, the others round(.., 4)
MeasureColumn(hedges, all_classes, measure) ==
    [c \in Range(all_classes) |->
        IF measure = "Degree" THEN Accumulated(hedges, measure, c)
        ELSE Round(Accumulated(hedges, measure, c), 4)]

FMaxOf(f) == CHOOSE x \in Range(f) : \A y \in Range(f) : FLeq(y, x)

\* if mx > 0
NormMade(column) == ~FLeq(FMaxOf(column), FZero)

\* (df[col] / mx).round(4)
NormColumn(column) ==
    LET mx == FMaxOf(column)
    IN [c \in DOMAIN column |->
          IF mx.n = 0 THEN FZero
          ELSE Round(FMul(column[c], Frac(mx.d, mx.n)), 4)]

\* the orders sort_values("Size_Weighted", ascending=False) may leave the
\* rows in: the default sort is not stable
SortedOrders(column) ==
    {s \in ListsOfSet(DOMAIN column) :
        \A a, b \in DOMAIN s : a < b => FLeq(column[s[b]], column[s[a]])}

HypergraphCentrality(hedges, all_classes, row_order) ==
    IF all_classes = <<>>
    THEN [ready |-> TRUE, raised |-> FALSE, order |-> <<>>,
          columns |-> Measures, norm_columns |-> Measures,
          value |-> [m \in Measures |-> <<>>],
          norm |-> [m \in Measures |-> <<>>]]
    ELSE LET value == [m \in Measures |->
                          MeasureColumn(hedges, all_classes, m)]
             made == {m \in Measures : NormMade(value[m])}
         IN [ready |-> TRUE, raised |-> FALSE, order |-> row_order,
             columns |-> Measures, norm_columns |-> made,
             value |-> value,
             norm |-> [m \in made |-> NormColumn(value[m])]]

\* the classes a caller asks the centrality of
ClassLists == {SortedList(S) : S \in SUBSET (1..HyperClasses)}

CallHypergraphCentrality ==
    /\ fn = "extract_hyperedges"
    /\ out.ready
    /\ ~out.raised
    /\ \E all_classes \in ClassLists :
       \E row_order \in SortedOrders(
                        MeasureColumn(out.rows, all_classes, "Size_Weighted")) :
          /\ inp' = [hedges_df |-> out.rows, all_classes |-> all_classes]
          /\ out' = HypergraphCentrality(out.rows, all_classes, row_order)
    /\ fn' = "hypergraph_centrality"
    /\ UNCHANGED pcVars

NextHypergraph == CallExtractHyperedges \/ CallHypergraphCentrality
SpecHypergraph == InitHypergraph /\ [][NextHypergraph]_vars

\* ==== claims about the hypergraph functions ==============================
HyperedgesReturned == fn = "extract_hyperedges" /\ out.ready /\ ~out.raised

\* the isolates whose set of classes equal to 1 is exactly fs
IsolatesWith(fs) ==
    {r \in DOMAIN inp.class_df :
        {c \in DOMAIN inp.class_df[r] : inp.class_df[r][c] = 1} = fs}

\* C22: every hyperedge returned by extract_hyperedges has
\* min_size <= Size <= max_size and a reported Support >= min_support; it
\* is the set of classes equal to 1 of at least one isolate, its count is
\* the number of isolates with exactly that set, and the support is the
\* count divided by the number of isolates.
C22_HyperedgeLimits ==
    HyperedgesReturned =>
        \A k \in DOMAIN out.rows :
            LET r == out.rows[k]
            IN /\ inp.min_size <= r.Size
               /\ r.Size <= inp.max_size
               /\ r.Size = Cardinality(r.set)
               /\ IsolatesWith(r.set) # {}
               /\ r.Count = Cardinality(IsolatesWith(r.set))
               /\ FLeq(inp.min_support, r.Support)

CentralityReturned == fn = "hypergraph_centrality" /\ out.ready

\* C23: hypergraph_centrality returns, for every class of the universe
\* and each of the three measures, a min-max normalised score in [0, 1];
\* the normalised score is 0 for every class when the maximum of the
\* measure is 0, and a class contained in no hyperedge is in the output
\* with all scores 0.
C23_CentralityNormalised ==
    CentralityReturned =>
        \A c \in Range(inp.all_classes) : \A m \in Measures :
            /\ c \in DOMAIN out.value[m]
            /\ m \in out.norm_columns
            /\ c \in DOMAIN out.norm[m]
            /\ FLeq(FZero, out.norm[m][c])
            /\ FLeq(out.norm[m][c], FOne)
            /\ (\A k \in DOMAIN inp.hedges_df : c \notin inp.hedges_df[k].set) =>
                  /\ FEq(out.value[m][c], FZero)
                  /\ FEq(out.norm[m][c], FZero)
            /\ (\A x \in Range(inp.all_classes) : FEq(out.value[m][x], FZero)) =>
                  FEq(out.norm[m][c], FZero)

\* ---- interaction_information ------------------------------------------
IIColumns == 4      \* columns of the binary frame
IIIsolates == 1     \* rows of the binary frame
IISpread == 1       \* grid steps of ii taken on the far side of a threshold

IISteps == 4        \* grid steps of ii per unit of the last digit round(ii, 4) keeps

\* ii is a sum of signed joint entropies, in bits: a float that is no
\* rational function of the counts.  It is carried on a grid finer than
\* the digits round(ii, 4) keeps.
IIScale == (10 ^ 4) * IISteps

\* 0.01, the threshold of both comparisons
IIThreshold == Frac(1, 100)

\* the values of ii the model draws: 0, and the grid points just beyond
\* the two thresholds
IIVals ==
    {FZero}
    \cup {Frac(sgn * (IIScale \div 100 + d), IIScale) :
            sgn \in {-1, 1}, d \in 1..IISpread}

\* (df[list(sub)].sum(axis=1) == order).mean()
JointPrev(df, sub) ==
    Frac(Cardinality({r \in DOMAIN df : \A k \in DOMAIN sub : df[r][sub[k]] = 1}),
         Len(df))

RECURSIVE SubsetsUpTo(_, _, _)
\* the subsets in loop order: for order in range(3, max_order + 1):
\* for sub in combinations(features, order)
SubsetsUpTo(feats, from, max_order) ==
    IF from > max_order THEN <<>>
    ELSE Combinations(feats, from) \o SubsetsUpTo(feats, from + 1, max_order)

\* the subsets the loop does not skip (joint_prev < min_support: continue)
KeptSubsets(df, feats, max_order, min_support) ==
    SelectSeq(SubsetsUpTo(feats, 3, max_order),
              LAMBDA sub : FLeq(min_support, JointPrev(df, sub)))

\* "synergistic" if ii > 0.01 else ("redundant" if ii < -0.01 else "independent")
TypeOf(ii) ==
    IF ~FLeq(ii, IIThreshold) THEN "synergistic"
    ELSE IF ~FLeq(FSub(FZero, IIThreshold), ii) THEN "redundant"
    ELSE "independent"

\* the row appended for a kept subset whose interaction information is ii
InteractionRow(df, sub, ii) ==
    [Features |-> sub, Order |-> Len(sub), II |-> Round(ii, 4),
     Type |-> TypeOf(ii), Joint_Prevalence |-> Round(JointPrev(df, sub), 4)]

FAbs(x) == Frac(Abs(x.n), x.d)

\* the orders sort_values("II", key=abs, ascending=False) may leave the
\* rows in: the default sort is not stable
AbsSortedOrders(rows) ==
    {s \in ListsOfSet(DOMAIN rows) :
        \A a, b \in DOMAIN s :
            a < b => FLeq(FAbs(rows[s[b]].II), FAbs(rows[s[a]].II))}

\* the rows in the order the loop appends them; ii[k] is the interaction
\* information of the k-th kept subset
AppendedRows(i, ii) ==
    LET kept == KeptSubsets(i.df, i.features, i.max_order, i.min_support)
    IN [k \in DOMAIN kept |-> InteractionRow(i.df, kept[k], ii[k])]

InteractionInformation(i, ii, row_order) ==
    LET rows == AppendedRows(i, ii)
    IN [ready |-> TRUE, ii |-> [k \in DOMAIN rows |-> ii[row_order[k]]],
        rows |-> [k \in DOMAIN rows |-> rows[row_order[k]]]]

FeatureLists == {SortedList(S) : S \in SUBSET (1..IIColumns)}

InteractionInputs ==
    [df : [1..IIIsolates -> [1..IIColumns -> {0, 1}]],
     features : FeatureLists,
     max_order : 2..IIColumns,
     min_support : MinSupports]

InitInteraction ==
    /\ NoPcSkeleton
    /\ fn = "interaction_information"
    /\ inp \in InteractionInputs
    /\ out = NotReturned

CallInteractionInformation ==
    /\ fn = "interaction_information"
    /\ ~out.ready
    /\ \E kept \in {KeptSubsets(inp.df, inp.features, inp.max_order,
                                inp.min_support)} :
       \E ii \in [DOMAIN kept -> IIVals] :
       \E row_order \in AbsSortedOrders(AppendedRows(inp, ii)) :
          out' = InteractionInformation(inp, ii, row_order)
    /\ UNCHANGED <<fn, inp>>
    /\ UNCHANGED pcVars

NextInteraction == CallInteractionInformation
SpecInteraction == InitInteraction /\ [][NextInteraction]_vars

InteractionReturned == fn = "interaction_information" /\ out.ready

\* C24: every row returned by interaction_information is for a feature
\* subset of size between 3 and max_order and carries exactly one Type,
\* consistent with the II value reported in that row: synergistic iff
\* II > 0.01, redundant iff II < -0.01, independent otherwise.
C24_TypeMatchesReportedII ==
    InteractionReturned =>
        \A k \in DOMAIN out.rows :
            LET r == out.rows[k]
            IN /\ 3 <= r.Order
               /\ r.Order <= inp.max_order
               /\ r.Order = Len(r.Features)
               /\ Range(r.Features) \subseteq Range(inp.features)
               /\ r.Type \in {"synergistic", "redundant", "independent"}
               /\ r.Type = "synergistic" <=> ~FLeq(r.II, IIThreshold)
               /\ r.Type = "redundant" <=> ~FLeq(FSub(FZero, IIThreshold), r.II)
               /\ r.Type = "independent" <=>
                      (FLeq(r.II, IIThreshold)
                       /\ FLeq(FSub(FZero, IIThreshold), r.II))

(***************************************************************************)
(* Part 7: Config.to_yaml and Config.from_yaml (config.py).                *)
(*                                                                         *)
(* A Python value is a scalar (its type in tag, its YAML text in text), a  *)
(* dict (the key/value pairs in insertion order) or a list.  A dataclass   *)
(* instance is a record of its fields.                                     *)
(***************************************************************************)
Scalar(tag, text) == [kind |-> "scalar", tag |-> tag, text |-> text, items |-> <<>>]
PyStr(s) == Scalar("str", s)
PyInt(s) == Scalar("int", s)
PyFloat(s) == Scalar("float", s)
PyBool(s) == Scalar("bool", s)
PyNone == Scalar("null", "null")
PyDict(pairs) == [kind |-> "map", tag |-> "map", text |-> "", items |-> pairs]
PyList(elems) == [kind |-> "seq", tag |-> "seq", text |-> "", items |-> elems]
Pair(k, v) == [key |-> k, value |-> v]

\* the plain scalars the implicit resolver of YAML 1.1 reads as null, bool,
\* int and float; every other plain scalar is a string
NullTexts == {"", "~", "null"}
BoolTexts == {"true", "false", "yes", "no", "on", "off"}
IntTexts == {"0", "1", "2", "3", "4", "6", "42", "100", "5000", "-1"}
FloatTexts == {"0.05", "0.1", "0.9", "0.95", "1.0", "1.1", "2.0", "2.5", ".nan"}

Resolve(text) ==
    IF text \in NullTexts THEN "null"
    ELSE IF text \in BoolTexts THEN "bool"
    ELSE IF text \in IntTexts THEN "int"
    ELSE IF text \in FloatTexts THEN "float"
    ELSE "str"

\* (mutant) every scalar is written plain
ScalarStylePlain(v) == "plain"

\* the style yaml.dump writes a scalar in: plain when the resolver gives
\* the plain text the value's own type, otherwise quoted (a string) or
\* with its tag
ScalarStyle(v) ==
    IF Resolve(v.text) = v.tag THEN "plain"
    ELSE IF v.tag = "str" THEN "quoted"
    ELSE "tagged"

RECURSIVE YamlDump(_)
\* yaml.dump(..., default_flow_style=False, sort_keys=False): the document
\* as a tree of nodes; the style of a scalar node is what is left of the
\* value's type in the text
YamlDump(v) ==
    IF v.kind = "scalar"
    THEN [kind |-> "scalar", style |-> ScalarStyle(v),
          tag |-> IF ScalarStyle(v) = "tagged" THEN v.tag ELSE "",
          text |-> v.text, items |-> <<>>]
    ELSE IF v.kind = "map"
    THEN [kind |-> "map", style |-> "block", tag |-> "", text |-> "",
          items |-> [k \in DOMAIN v.items |->
                        Pair(YamlDump(v.items[k].key), YamlDump(v.items[k].value))]]
    ELSE [kind |-> "seq", style |-> "block", tag |-> "", text |-> "",
          items |-> [k \in DOMAIN v.items |-> YamlDump(v.items[k])]]

\* the spelling a loaded bool, null or number has as a Python value
Canonical(tag, text) ==
    IF tag = "null" THEN "null"
    ELSE IF tag = "bool"
    THEN (IF text \in {"true", "yes", "on"} THEN "true" ELSE "false")
    ELSE text

RECURSIVE YamlLoad(_)
\* yaml.safe_load: a plain scalar gets the type the resolver reads in its
\* text, a quoted one is a string
YamlLoad(node) ==
    IF node.kind = "scalar"
    THEN LET tag == IF node.style = "plain" THEN Resolve(node.text)
                    ELSE IF node.style = "quoted" THEN "str"
                    ELSE node.tag
         IN Scalar(tag, Canonical(tag, node.text))
    ELSE IF node.kind = "map"
    THEN PyDict([k \in DOMAIN node.items |->
                    Pair(YamlLoad(node.items[k].key), YamlLoad(node.items[k].value))])
    ELSE PyList([k \in DOMAIN node.items |-> YamlLoad(node.items[k])])

\* bool(v) of Python
Truthy(v) ==
    IF v.kind = "scalar"
    THEN ~(\/ v.tag = "null"
           \/ (v.tag = "bool" /\ v.text = "false")
           \/ (v.tag = "int" /\ v.text = "0")
           \/ (v.tag = "str" /\ v.text = ""))
    ELSE v.items # <<>>

RECURSIVE PyEq(_, _)
\* a == b of Python: NaN equals nothing, itself included
PyEq(a, b) ==
    /\ a.kind = b.kind
    /\ IF a.kind = "scalar"
       THEN a.tag = b.tag /\ a.text = b.text /\ a.text # ".nan"
       ELSE /\ Len(a.items) = Len(b.items)
            /\ IF a.kind = "seq"
               THEN \A k \in DOMAIN a.items : PyEq(a.items[k], b.items[k])
               ELSE \A k \in DOMAIN a.items : \E j \in DOMAIN b.items :
                       /\ PyEq(a.items[k].key, b.items[j].key)
                       /\ PyEq(a.items[k].value, b.items[j].value)

\* ---- the dataclasses ----------------------------------------------------
SUPPORTED_SCHEMA_VERSIONS == {"1.0", "1.1"}

\* the fields of each dataclass, in declaration order
FieldOrder ==
    [OntologySpec |-> <<"classes", "mdr_threshold">>,
     CausalSpec |-> <<"enabled", "algorithm", "alpha", "max_cond_set">>,
     HypergraphSpec |-> <<"enabled", "min_pattern", "max_pattern",
                          "min_support", "max_interaction_order">>,
     ProbabilisticSpec |-> <<"enabled", "model", "n_mc">>,
     GeneLayerSpec |-> <<"format", "feature_column", "value_column">>,
     CompressionSpec |-> <<"enabled", "redundancy_jaccard", "keep_top">>,
     NetworkSpec |-> <<"alpha", "fdr_method", "motif_sizes">>,
     Config |-> <<"schema_version", "config_strict", "input_csv", "gene_csv",
                  "output_dir", "id_column", "ontology", "causal",
                  "hypergraph", "network", "gene_layer", "probabilistic",
                  "compression", "min_classes_matched", "n_bootstrap",
                  "confidence", "n_jobs", "seed", "test_costs">>]

\* _dataclass_allowed_fields
AllowedFields(dc_cls) == Range(FieldOrder[dc_cls])

\* the fields of Config that hold a nested dataclass, and its class
SectionClass ==
    [ontology |-> "OntologySpec", causal |-> "CausalSpec",
     hypergraph |-> "HypergraphSpec", network |-> "NetworkSpec",
     gene_layer |-> "GeneLayerSpec", probabilistic |-> "ProbabilisticSpec",
     compression |-> "CompressionSpec"]

Sections == DOMAIN SectionClass

\* the instance each dataclass builds when called without arguments
Defaults ==
    [OntologySpec |-> [classes |-> PyDict(<<>>), mdr_threshold |-> PyInt("3")],
     CausalSpec |-> [enabled |-> PyBool("true"), algorithm |-> PyStr("pc"),
                     alpha |-> PyFloat("0.05"), max_cond_set |-> PyInt("3")],
     HypergraphSpec |-> [enabled |-> PyBool("true"), min_pattern |-> PyInt("2"),
                         max_pattern |-> PyInt("6"),
                         min_support |-> PyFloat("0.05"),
                         max_interaction_order |-> PyInt("3")],
     ProbabilisticSpec |-> [enabled |-> PyBool("true"),
                            model |-> PyStr("bernoulli_by_class"),
                            n_mc |-> PyInt("5000")],
     GeneLayerSpec |-> [format |-> PyStr("auto"), feature_column |-> PyNone,
                        value_column |-> PyNone],
     CompressionSpec |-> [enabled |-> PyBool("true"),
                          redundancy_jaccard |-> PyFloat("0.9"),
                          keep_top |-> PyInt("100")],
     NetworkSpec |-> [alpha |-> PyFloat("0.05"), fdr_method |-> PyStr("fdr_bh"),
                      motif_sizes |-> PyList(<<PyInt("3"), PyInt("4")>>)]]

ConfigDefaults ==
    [schema_version |-> PyStr("1.1"), config_strict |-> PyBool("false"),
     input_csv |-> PyStr(""), gene_csv |-> PyStr(""),
     output_dir |-> PyStr("mdr_results"), id_column |-> PyStr("Strain_ID"),
     ontology |-> Defaults.OntologySpec, causal |-> Defaults.CausalSpec,
     hypergraph |-> Defaults.HypergraphSpec, network |-> Defaults.NetworkSpec,
     gene_layer |-> Defaults.GeneLayerSpec,
     probabilistic |-> Defaults.ProbabilisticSpec,
     compression |-> Defaults.CompressionSpec,
     min_classes_matched |-> PyInt("1"), n_bootstrap |-> PyInt("5000"),
     confidence |-> PyFloat("0.95"), n_jobs |-> PyInt("-1"),
     seed |-> PyInt("42"), test_costs |-> PyDict(<<>>)]

\* ---- to_yaml -------------------------------------------------------------
\* dc.asdict of a nested dataclass: the dict of its fields
AsDict(dc_cls, o) ==
    PyDict([k \in DOMAIN FieldOrder[dc_cls] |->
               Pair(PyStr(FieldOrder[dc_cls][k]), o[FieldOrder[dc_cls][k]])])

\* ser(self)
Ser(cfg) ==
    PyDict([k \in DOMAIN FieldOrder.Config |->
               LET name == FieldOrder.Config[k]
               IN Pair(PyStr(name),
                       IF name \in Sections
                       THEN AsDict(SectionClass[name], cfg[name])
                       ELSE cfg[name])])

\* the document to_yaml writes
ToYaml(cfg) == YamlDump(Ser(cfg))

\* ---- from_yaml -----------------------------------------------------------
\* k in d, where k is a string
HasKey(d, name) == \E k \in DOMAIN d.items : d.items[k].key = PyStr(name)

\* d.get(name, default)
Get(d, name, default) ==
    IF HasKey(d, name)
    THEN d.items[CHOOSE k \in DOMAIN d.items : d.items[k].key = PyStr(name)].value
    ELSE default

\* _is_dataclass_type(f.type): under `from __future__ import annotations`
\* the type of a field is the string of its annotation, which has no
\* __dataclass_fields__
IsDataclassType(dc_cls, name) == FALSE

\* k not in allowed, for a key of the loaded mapping
Unknown(dc_cls, key) == ~(key.tag = "str" /\ key.text \in AllowedFields(dc_cls))

\* the paths _validate_and_filter appends to unknown_paths; a path is the
\* sequence of the keys leading to the unknown one
UnknownPaths(dc_cls, raw) ==
    {<<raw.items[k].key.text>> : k \in {j \in DOMAIN raw.items :
                                          Unknown(dc_cls, raw.items[j].key)}}
    \cup UNION {
        LET item == raw.items[k]
        IN IF /\ ~Unknown(dc_cls, item.key)
              /\ dc_cls = "Config"
              /\ IsDataclassType(dc_cls, item.key.text)
              /\ item.value.kind = "map"
           THEN {<<item.key.text, item.value.items[j].key.text>> :
                    j \in {i \in DOMAIN item.value.items :
                             Unknown(SectionClass[item.key.text],
                                     item.value.items[i].key)}}
           ELSE {}
        : k \in DOMAIN raw.items}

\* the mapping _validate_and_filter returns: the unknown keys left out
Filtered(dc_cls, raw) ==
    LET kept == SelectSeq(raw.items, LAMBDA item : ~Unknown(dc_cls, item.key))
    IN PyDict([k \in DOMAIN kept |->
                 IF /\ dc_cls = "Config"
                    /\ IsDataclassType(dc_cls, kept[k].key.text)
                    /\ kept[k].value.kind = "map"
                 THEN Pair(kept[k].key,
                           PyDict(SelectSeq(kept[k].value.items,
                               LAMBDA item :
                                   ~Unknown(SectionClass[kept[k].key.text],
                                            item.key))))
                 ELSE kept[k]])

\* cls(**kwargs) raises TypeError unless kwargs is a mapping whose keys
\* are fields of cls
Accepts(dc_cls, kwargs) ==
    /\ kwargs.kind = "map"
    /\ \A k \in DOMAIN kwargs.items : ~Unknown(dc_cls, kwargs.items[k].key)

\* cls(**kwargs): the defaults, overridden by the keywords given
Construct(dc_cls, kwargs) ==
    [name \in AllowedFields(dc_cls) |->
        Get(kwargs, name, Defaults[dc_cls][name])]

\* filtered.pop(name, {}) or {}
SectionArgs(filtered, name) ==
    LET v == Get(filtered, name, PyDict(<<>>))
    IN IF Truthy(v) THEN v ELSE PyDict(<<>>)

\* Config.from_yaml on the document `doc` with SSUIS_CONFIG_STRICT = env
FromYaml(doc, env) ==
    LET loaded == YamlLoad(doc)
        raw == IF Truthy(loaded) THEN loaded ELSE PyDict(<<>>)
        schema_in == Get(raw, "schema_version", PyStr("1.0")).text
        strict == Truthy(Get(raw, "config_strict", PyBool("false"))) \/ env = "1"
        supported == schema_in \in SUPPORTED_SCHEMA_VERSIONS
        unknown_paths == UnknownPaths("Config", raw)
        filtered == Filtered("Config", raw)
        report == [ready |-> TRUE, strict |-> strict, unknown_keys |-> unknown_paths]
    IN IF ~supported /\ strict
       THEN report @@ [raised |-> "ValueError", status |-> ""]
       ELSE IF \E s \in Sections : ~Accepts(SectionClass[s], SectionArgs(filtered, s))
       THEN report @@ [raised |-> "TypeError", status |-> ""]
       ELSE IF unknown_paths # {} /\ strict
       THEN report @@ [raised |-> "ValueError", status |-> "FAIL"]
       ELSE report @@
            [raised |-> "",
             status |-> IF supported /\ unknown_paths = {} THEN "PASS" ELSE "WARN",
             cfg |-> [name \in AllowedFields("Config") |->
                         IF name \in Sections
                         THEN Construct(SectionClass[name], SectionArgs(filtered, name))
                         ELSE Get(filtered, name, ConfigDefaults[name])]]

\* ---- the configurations and the files the loader is given ----------------
\* SSUIS_CONFIG_STRICT; "0" is also what an unset variable reads as
EnvVals == {"0", "1"}

ConfigValues ==
    {[ConfigDefaults EXCEPT
        !.schema_version = sv, !.config_strict = cs, !.input_csv = ic,
        !.ontology.classes = oc, !.gene_layer.feature_column = fc,
        !.confidence = cf, !.test_costs = tc] :
     sv \in {PyStr("1.1"), PyStr("2.0")},
     cs \in {PyBool("false"), PyBool("true")},
     ic \in {PyStr(""), PyStr("x.csv"), PyStr("42")},
     oc \in {PyDict(<<>>),
             PyDict(<<Pair(PyStr("Beta"), PyList(<<PyStr("AMP")>>))>>)},
     fc \in {PyNone, PyStr("gene"), PyStr("null")},
     cf \in {PyFloat("0.95"), PyFloat(".nan")},
     tc \in {PyDict(<<>>), PyDict(<<Pair(PyStr("Beta"), PyFloat("2.5"))>>)}}

Plain(text) == [kind |-> "scalar", style |-> "plain", tag |-> "", text |-> text, items |-> <<>>]
Quoted(text) == [kind |-> "scalar", style |-> "quoted", tag |-> "", text |-> text, items |-> <<>>]
Mapping(pairs) == [kind |-> "map", style |-> "block", tag |-> "", text |-> "", items |-> pairs]

\* hand-written files: each line below is left out or written in one of
\* the ways listed
Documents ==
    {Mapping(sv \o cs \o sd \o bg \o ca \o on) :
        sv \in {<<>>, <<Pair(Plain("schema_version"), Quoted("1.1"))>>,
                <<Pair(Plain("schema_version"), Quoted("2.0"))>>},
        cs \in {<<>>, <<Pair(Plain("config_strict"), Plain("true"))>>},
        sd \in {<<>>, <<Pair(Plain("seed"), Plain("1"))>>},
        bg \in {<<>>, <<Pair(Plain("bogus"), Plain("1"))>>},
        ca \in {<<>>,
                <<Pair(Plain("causal"), Plain("null"))>>,
                <<Pair(Plain("causal"),
                       Mapping(<<Pair(Plain("alpha"), Plain("0.1"))>>))>>,
                <<Pair(Plain("causal"),
                       Mapping(<<Pair(Plain("alpha"), Plain("0.1")),
                                 Pair(Plain("bogus"), Plain("1"))>>))>>},
        on \in {<<>>,
                <<Pair(Plain("ontology"),
                       Mapping(<<Pair(Plain("mdr_threshold"), Plain("2")),
                                 Pair(Plain("threshold"), Plain("4"))>>))>>}}
    \cup {Plain("")}

InitConfig ==
    /\ NoPcSkeleton
    /\ out = NotReturned
    /\ \/ fn = "to_yaml" /\ inp \in [cfg : ConfigValues, env : EnvVals]
       \/ fn = "from_yaml" /\ inp \in [doc : Documents, env : EnvVals]

\* cfg.to_yaml(path)
CallToYaml ==
    /\ fn = "to_yaml"
    /\ ~out.ready
    /\ out' = [ready |-> TRUE, doc |-> ToYaml(inp.cfg)]
    /\ UNCHANGED <<fn, inp>>
    /\ UNCHANGED pcVars

\* Config.from_yaml(path) on the file to_yaml has written
CallFromYamlWritten ==
    /\ fn = "to_yaml"
    /\ out.ready
    /\ fn' = "from_yaml"
    /\ inp' = [cfg |-> inp.cfg, env |-> inp.env, doc |-> out.doc]
    /\ out' = FromYaml(out.doc, inp.env)
    /\ UNCHANGED pcVars

\* Config.from_yaml(path) on a hand-written file
CallFromYaml ==
    /\ fn = "from_yaml"
    /\ ~out.ready
    /\ out' = FromYaml(inp.doc, inp.env)
    /\ UNCHANGED <<fn, inp>>
    /\ UNCHANGED pcVars

NextConfig == CallToYaml \/ CallFromYamlWritten \/ CallFromYaml
SpecConfig == InitConfig /\ [][NextConfig]_vars

\* a round trip has been made: inp.cfg written, the file loaded again
RoundTripMade == fn = "from_yaml" /\ out.ready /\ "cfg" \in DOMAIN inp

\* the loaded configuration equals cfg in every field, the fields of the
\* nested sections included
SameConfig(cfg, loaded) ==
    \A name \in AllowedFields("Config") :
        IF name \in Sections
        THEN \A f \in AllowedFields(SectionClass[name]) :
                PyEq(loaded[name][f], cfg[name][f])
        ELSE PyEq(loaded[name], cfg[name])

\* C25: for every Config value cfg, Config.from_yaml applied to the file
\* written by cfg.to_yaml yields a Config whose every field, the nested
\* sections and test_costs included, equals the corresponding field of cfg.
C25_RoundTrip ==
    RoundTripMade => out.raised = "" /\ SameConfig(inp.cfg, out.cfg)

RECURSIVE HasNaN(_)
HasNaN(v) ==
    IF v.kind = "scalar" THEN v.text = ".nan"
    ELSE IF v.kind = "seq" THEN \E k \in DOMAIN v.items : HasNaN(v.items[k])
    ELSE \E k \in DOMAIN v.items : HasNaN(v.items[k].value)

NaNFree(cfg) ==
    \A name \in AllowedFields("Config") :
        IF name \in Sections
        THEN \A f \in AllowedFields(SectionClass[name]) : ~HasNaN(cfg[name][f])
        ELSE ~HasNaN(cfg[name])

\* the loader refuses the file: strict mode and a schema version it does
\* not support
Refused(cfg, env) ==
    /\ cfg.schema_version.text \notin SUPPORTED_SCHEMA_VERSIONS
    /\ (Truthy(cfg.config_strict) \/ env = "1")

\* C25 (amended): the round trip reproduces every field of cfg, provided
\* that no float of cfg is NaN and that the loader does not refuse the
\* file, which it does in strict mode when cfg.schema_version is not a
\* supported one; in that case from_yaml raises ValueError.
C25_RoundTripUnlessRefused ==
    RoundTripMade =>
        /\ Refused(inp.cfg, inp.env) <=> out.raised = "ValueError"
        /\ out.raised \in {"", "ValueError"}
        /\ (out.raised = "" /\ NaNFree(inp.cfg)) => SameConfig(inp.cfg, out.cfg)

C25_Witness ==
    /\ RoundTripMade
    /\ out.raised = ""
    /\ out.strict
    /\ inp.cfg.input_csv = PyStr("")
    /\ inp.cfg.gene_layer.feature_column = PyStr("null")
    /\ inp.cfg.ontology.classes # PyDict(<<>>)
    /\ inp.cfg.test_costs # PyDict(<<>>)
    /\ NaNFree(inp.cfg)
    /\ SameConfig(inp.cfg, out.cfg)

FromYamlReturned == fn = "from_yaml" /\ out.ready

\* the mapping a file holds; an empty file holds none
RawOf(doc) == IF Truthy(YamlLoad(doc)) THEN YamlLoad(doc) ELSE PyDict(<<>>)

\* every key of the file that is no field: at top level, or inside the
\* mapping of a nested section
AllUnknownKeys(raw) ==
    {<<raw.items[k].key.text>> :
        k \in {j \in DOMAIN raw.items : Unknown("Config", raw.items[j].key)}}
    \cup UNION {
        LET item == raw.items[k]
        IN IF item.key.text \in Sections /\ item.value.kind = "map"
           THEN {<<item.key.text, item.value.items[j].key.text>> :
                    j \in {i \in DOMAIN item.value.items :
                             Unknown(SectionClass[item.key.text],
                                     item.value.items[i].key)}}
           ELSE {}
        : k \in DOMAIN raw.items}

\* the configuration holds the value of every known key of the file
BuiltFromKnownKeys(raw, cfg) ==
    \A k \in DOMAIN raw.items :
        LET item == raw.items[k]
        IN IF Unknown("Config", item.key) THEN TRUE
           ELSE IF item.key.text \notin Sections
           THEN cfg[item.key.text] = item.value
           ELSE item.value.kind = "map" =>
                  \A j \in DOMAIN item.value.items :
                      LET nested == item.value.items[j]
                      IN ~Unknown(SectionClass[item.key.text], nested.key) =>
                            cfg[item.key.text][nested.key.text] = nested.value

\* C26: in non-strict mode Config.from_yaml reports and ignores every
\* unknown key, at top level or inside a nested section, and still returns
\* a Config built from the known keys; only in strict mode does an unknown
\* key make loading fail.
C26_UnknownKeysIgnored ==
    FromYamlReturned =>
        /\ out.raised # "" => out.strict
        /\ ~out.strict =>
              /\ out.raised = ""
              /\ out.unknown_keys = AllUnknownKeys(RawOf(inp.doc))
              /\ BuiltFromKnownKeys(RawOf(inp.doc), out.cfg)

(***************************************************************************)
(* Part 8: pc_skeleton against the answers the data gave.                  *)
(*                                                                         *)
(* memo holds the p-value of every test the statistic decided: the tests   *)
(* of (u, v) given a set of features other than u and v.                   *)
(***************************************************************************)
\* no conditioning set of features other than u and v on which (u, v) has
\* been tested gave a p-value above alpha
DataAlwaysDependent(e) ==
    \A key \in DOMAIN memo :
        (key[1] = e[1] /\ key[2] = e[2]) => memo[key] <= alpha

\* C27: for any max_cond >= 0, if the independence test reports dependence
\* for (u, v) under every conditioning set of size at most max_cond drawn
\* from the features other than u and v, then edge u-v is in the skeleton.
C27_DependentEdgeKept ==
    pc = "done" =>
        \A e \in AllPairs : DataAlwaysDependent(e) => e \in G

(***************************************************************************)
(* Part 9: mdr_spectrum (mdr/classification.py), followed by identify_mdr  *)
(* on the same class frame as in Pipeline.run.                             *)
(***************************************************************************)
\* cat(s) of mdr_spectrum
Cat(s, n_classes, threshold) ==
    IF s >= n_classes THEN "PDR"
    ELSE IF s >= n_classes - 2 THEN "XDR"
    ELSE IF s >= threshold THEN "MDR"
    ELSE "susceptible"

\* the row of mdr_spectrum for the isolate with the class calls v
SpectrumRow(v, threshold) ==
    LET n_classes == Len(v)
        min_res == Count(v, 1)
        n_missing == Count(v, NA)
        max_res == min_res + n_missing
    IN [N_Classes_Resistant_Min |-> min_res,
        N_Classes_Resistant_Max |-> max_res,
        Category |-> Cat(min_res, n_classes, threshold),
        Category_Definite |-> Cat(min_res, n_classes, threshold),
        Category_Possible |-> Cat(max_res, n_classes, threshold),
        N_Classes_Total |-> n_classes,
        N_Classes_Missing |-> n_missing]

MdrSpectrum(i) ==
    [r \in DOMAIN i.class_df |-> SpectrumRow(i.class_df[r], i.threshold)]

InitSpectrum ==
    /\ NoPcSkeleton
    /\ fn = "mdr_spectrum"
    /\ inp \in [class_df : ClassFrames(NumIsolates),
                threshold : 0..MaxThreshold]
    /\ out = NotReturned

CallMdrSpectrum ==
    /\ fn = "mdr_spectrum"
    /\ ~out.ready
    /\ out' = [ready |-> TRUE, spectrum |-> MdrSpectrum(inp)]
    /\ UNCHANGED <<fn, inp>>
    /\ UNCHANGED pcVars

\* mdr_mask = identify_mdr(class_df, threshold), the spectrum kept
CallIdentifyMdrAfterSpectrum ==
    /\ fn = "mdr_spectrum"
    /\ out.ready
    /\ fn' = "identify_mdr"
    /\ out' = [ready |-> TRUE, spectrum |-> out.spectrum,
               mdr |-> IdentifyMdr(inp).mdr]
    /\ UNCHANGED inp
    /\ UNCHANGED pcVars

NextSpectrum == CallMdrSpectrum \/ CallIdentifyMdrAfterSpectrum
SpecSpectrum == InitSpectrum /\ [][NextSpectrum]_vars

SpectrumAndMdrReturned ==
    fn = "identify_mdr" /\ out.ready /\ "spectrum" \in DOMAIN out

\* C28: mdr_spectrum gives an isolate a definite category other than
\* 'susceptible' (MDR, XDR or PDR) only if its known-resistant count
\* reaches the threshold: Category_Definite differs from 'susceptible'
\* exactly for the isolates for which identify_mdr returns True.
C28_DefiniteCategoryIffMdr ==
    SpectrumAndMdrReturned =>
        \A r \in DOMAIN inp.class_df :
            /\ out.spectrum[r].Category_Definite # "susceptible" =>
                  KnownResistant(inp.class_df[r]) >= inp.threshold
            /\ out.spectrum[r].Category_Definite # "susceptible" <=>
                  out.mdr[r] = "True"

(***************************************************************************)
(* Part 10: mdr_probability (mdr/classification.py) on a class frame,      *)
(* followed by next_best_test_evpi on the same frame as in Pipeline.run.   *)
(***************************************************************************)
\* class_df.mean(axis=0, skipna=True).astype(float).fillna(0.0).clip(0.0, 1.0)
PClass(class_df, c) ==
    LET known == {r \in DOMAIN class_df : class_df[r][c] # NA}
        ones == {r \in known : class_df[r][c] = 1}
    IN IF known = {} THEN FZero
       ELSE FMin(FMax(Frac(Cardinality(ones), Cardinality(known)), FZero), FOne)

MdrProbability(class_df, threshold) ==
    LET ncls == IF Len(class_df) = 0 THEN 0 ELSE Len(class_df[1])
        p_class == [c \in 1..ncls |-> PClass(class_df, c)]
    IN [r \in DOMAIN class_df |->
           ProbabilityRow(class_df[r], threshold, p_class) @@ [Strain_ID |-> r]]

\* the pipeline leaves fn_cost and fp_cost at their defaults
ProbabilityInputs ==
    {i \in EvpiInputs : i.fn_cost = FnCostDefault /\ i.fp_cost = FpCostDefault}

InitProbability ==
    /\ NoPcSkeleton
    /\ fn = "mdr_probability"
    /\ inp \in ProbabilityInputs
    /\ out = NotReturned

\* pm = mdr_probability(class_df, c.ontology.mdr_threshold)
CallMdrProbability ==
    /\ fn = "mdr_probability"
    /\ ~out.ready
    /\ out' = [ready |-> TRUE, p_mdr |-> MdrProbability(inp.class_df, inp.mdr_threshold)]
    /\ UNCHANGED <<fn, inp>>
    /\ UNCHANGED pcVars

\* evpi = next_best_test_evpi(class_df, threshold, test_costs=evpi_costs),
\* res["p_mdr"] kept
CallEvpiAfterProbability ==
    /\ fn = "mdr_probability"
    /\ out.ready
    /\ fn' = "next_best_test_evpi"
    /\ \E o \in {NextBestTestEvpi(inp)} :
          out' = [ready |-> TRUE, p_mdr |-> out.p_mdr, rows |-> o.rows]
    /\ UNCHANGED inp
    /\ UNCHANGED pcVars

NextProbability == CallMdrProbability \/ CallEvpiAfterProbability
SpecProbability == InitProbability /\ [][NextProbability]_vars

BothReturned ==
    fn = "next_best_test_evpi" /\ out.ready /\ "p_mdr" \in DOMAIN out

\* C29: for the same class matrix and threshold, the P_MDR mdr_probability
\* reports for an isolate with at least one missing class equals the
\* Current_pMDR next_best_test_evpi reports for that isolate, for every
\* class matrix, those in which some class is missing for every isolate
\* included.
C29_SameProbabilityInBothTables ==
    BothReturned =>
        \A r \in DOMAIN inp.class_df :
            Missing(inp.class_df[r]) > 0 =>
                /\ \E k \in DOMAIN out.rows : out.rows[k].Strain_ID = r
                /\ \A k \in DOMAIN out.rows :
                      out.rows[k].Strain_ID = r =>
                          FEq(out.rows[k].Current_pMDR, out.p_mdr[r].P_MDR)

(***************************************************************************)
(* Part 11: shapley_pattern_contributions (mdr/decision_v3.py).            *)
(*                                                                         *)
(* The prevalences and their sums are floats: a prevalence is the count    *)
(* of ones divided by the count of known calls, rounded to the nearest     *)
(* float, and every addition rounds its result.  The model keeps           *)
(* FloatBits bits of significand where a double keeps 53; 53 and FloatBits *)
(* are both odd, so that thirds round the same way in both.  The Shapley   *)
(* weights r!(n-r-1)!/n! and their sum phi are kept exact: their rounding  *)
(* moves phi in its last digits only.                                      *)
(***************************************************************************)
ShapClasses == 3     \* columns of the class frame
ShapIsolates == 3    \* rows of the class frame
ShapThreshold == 2   \* largest threshold
FloatBits == 5       \* bits of significand of a float

\* x * 2^e
Scaled(x, e) == IF e >= 0 THEN Frac(x.n * 2 ^ e, x.d) ELSE Frac(x.n, x.d * 2 ^ (0 - e))

\* the exponent that brings x > 0 to a significand of FloatBits bits
ExponentOf(x) ==
    CHOOSE e \in (0 - FloatBits)..(2 * FloatBits) :
        /\ FLeq(Frac(2 ^ (FloatBits - 1), 1), Scaled(x, e))
        /\ ~FLeq(Frac(2 ^ FloatBits, 1), Scaled(x, e))

\* the float nearest to x >= 0, a tie going to the even significand
RoundFloat(x) ==
    IF x.n = 0 THEN FZero
    ELSE LET e == ExponentOf(x)
             y == Scaled(x, e)
             q == y.n \div y.d
             r == y.n % y.d
             up == 2 * r > y.d \/ (2 * r = y.d /\ q % 2 = 1)
         IN Scaled(Frac(IF up THEN q + 1 ELSE q, 1), 0 - e)

\* a + b of two floats
FloatAdd(a, b) == RoundFloat(FAdd(a, b))

\* class_df.mean(skipna=True) of column c: NaN when no call is known
ClassMean(class_df, c) ==
    LET known == {r \in DOMAIN class_df : class_df[r][c] # NA}
        ones == {r \in known : class_df[r][c] = 1}
    IN IF known = {} THEN [nan |-> TRUE, v |-> FZero]
       ELSE [nan |-> FALSE,
             v |-> RoundFloat(Frac(Cardinality(ones), Cardinality(known)))]

\* the orders sort_values(ascending=False) may leave the classes in: NaN
\* last, and the default sort is not stable
DescendingOrders(means) ==
    {s \in ListsOfSet(DOMAIN means) :
        \A a, b \in DOMAIN s :
            a < b => \/ means[s[b]].nan
                     \/ (~means[s[a]].nan /\ FLeq(means[s[b]].v, means[s[a]].v))}

\* prev.loc[feats].fillna(0.5)
FilledPrevalence(m) == IF m.nan THEN Half ELSE m.v

RECURSIVE FloatSum(_, _)
\* sum(p[x] for x in S): the additions from left to right, starting at 0
FloatSum(p, S) ==
    IF S = <<>> THEN FZero
    ELSE FloatAdd(FloatSum(p, SubSeq(S, 1, Len(S) - 1)), p[S[Len(S)]])

RECURSIVE Factorial(_)
Factorial(k) == IF k = 0 THEN 1 ELSE k * Factorial(k - 1)

\* v of a coalition whose summed prevalence is s
CoalitionValue(s, threshold) == IF FLeq(Frac(threshold, 1), s) THEN 1 ELSE 0

\* all combinations of `others` of the sizes 0..r, in loop order
RECURSIVE CoalitionsUpTo(_, _)
CoalitionsUpTo(others, r) ==
    IF r < 0 THEN <<>>
    ELSE CoalitionsUpTo(others, r - 1) \o Combinations(others, r)

\* phi of feature f
Phi(feats, p, f, threshold) ==
    LET n == Len(feats)
        others == SelectSeq(feats, LAMBDA x : x # f)
        coalitions == CoalitionsUpTo(others, Len(others))
    IN FSumFn([k \in DOMAIN coalitions |->
           LET S == coalitions[k]
               r == Len(S)
               probS == FloatSum(p, S)
               vS == CoalitionValue(probS, threshold)
               vSf == CoalitionValue(FloatAdd(probS, p[f]), threshold)
           IN FMul(Frac(Factorial(r) * Factorial(n - r - 1), Factorial(n)),
                   Frac(vSf - vS, 1))])

\* the rows in the order the loop appends them
ShapleyRows(feats, p, threshold) ==
    [k \in DOMAIN feats |->
        [Class |-> feats[k],
         Shapley_MDR_Contribution |-> Phi(feats, p, feats[k], threshold),
         Prevalence |-> p[feats[k]]]]

\* the orders sort_values('Shapley_MDR_Contribution', ascending=False) may
\* leave the rows in
ShapleySortedOrders(rows) ==
    {s \in ListsOfSet(DOMAIN rows) :
        \A a, b \in DOMAIN s :
            a < b => FLeq(rows[s[b]].Shapley_MDR_Contribution,
                          rows[s[a]].Shapley_MDR_Contribution)}

\* the top min(top_n, len(prev)) classes of the sorted prevalences
TopFeatures(sorted, top_n) == SubSeq(sorted, 1, Min({top_n, Len(sorted)}))

\* class_df.mean(skipna=True), before it is sorted
ClassMeans(class_df) ==
    [c \in 1..Len(class_df[1]) |-> ClassMean(class_df, c)]

\* the rows before the final sort, the sorted prevalences being `sorted`
AppendedShapleyRows(i, sorted) ==
    LET prevs == ClassMeans(i.class_df)
        feats == TopFeatures(sorted, i.top_n)
        p == [c \in Range(feats) |-> FilledPrevalence(prevs[c])]
    IN ShapleyRows(feats, p, i.threshold)

\* the frame returned: the rows in the order the final sort leaves them
ShapleyPatternContributions(feats, rows, row_order) ==
    [ready |-> TRUE, feats |-> feats,
     rows |-> [k \in DOMAIN rows |-> rows[row_order[k]]]]

\* the frames, their isolates in the order of their calls: no column mean
\* depends on the order of the rows
RowLeq(a, b) ==
    \A c \in DOMAIN a : (\A d \in 1..(c - 1) : a[d] = b[d]) => a[c] <= b[c]

ShapleyFrames ==
    UNION {{f \in [1..ShapIsolates -> [1..n -> CallVals]] :
               \A r \in 1..(ShapIsolates - 1) : RowLeq(f[r], f[r + 1])}
           : n \in 0..ShapClasses}

ShapleyInputs ==
    [class_df : ShapleyFrames, threshold : 0..ShapThreshold, top_n : 0..ShapClasses]

InitShapley ==
    /\ NoPcSkeleton
    /\ fn = "shapley_pattern_contributions"
    /\ inp \in ShapleyInputs
    /\ out = NotReturned

CallShapley ==
    /\ fn = "shapley_pattern_contributions"
    /\ ~out.ready
    /\ \E sorted \in DescendingOrders(ClassMeans(inp.class_df)) :
       \E rows \in {AppendedShapleyRows(inp, sorted)} :
       \E row_order \in ShapleySortedOrders(rows) :
          out' = ShapleyPatternContributions(TopFeatures(sorted, inp.top_n),
                                             rows, row_order)
    /\ UNCHANGED <<fn, inp>>
    /\ UNCHANGED pcVars

NextShapley == CallShapley
SpecShapley == InitShapley /\ [][NextShapley]_vars

ShapleyReturned == fn = "shapley_pattern_contributions" /\ out.ready

\* the prevalence of class c as an exact fraction
ExactPrevalence(class_df, c) ==
    LET known == {r \in DOMAIN class_df : class_df[r][c] # NA}
        ones == {r \in known : class_df[r][c] = 1}
    IN IF known = {} THEN Half ELSE Frac(Cardinality(ones), Cardinality(known))

\* 1 if the sum s reaches the threshold, 0 otherwise
Reaches(s, threshold) == IF FLeq(Frac(threshold, 1), s) THEN FOne ELSE FZero

\* C30: for threshold > 0 the Shapley values returned by
\* shapley_pattern_contributions over the top-N classes are each >= 0 and
\* sum to the value of the grand coalition minus that of the empty one: 1
\* if the summed prevalence of the top-N classes reaches the threshold and
\* 0 otherwise; two classes of equal prevalence receive equal values.  The
\* summed prevalence is read either way: the sum of the exact prevalences,
\* or the exact sum of the prevalences the frame reports.
C30_ShapleyEfficientAndSymmetric ==
    (ShapleyReturned /\ inp.threshold > 0) =>
        /\ \A k \in DOMAIN out.rows :
              FLeq(FZero, out.rows[k].Shapley_MDR_Contribution)
        /\ LET total == FSumFn([k \in DOMAIN out.rows |->
                                  out.rows[k].Shapley_MDR_Contribution])
           IN \/ FEq(total,
                     Reaches(FSumFn([c \in Range(out.feats) |->
                                        ExactPrevalence(inp.class_df, c)]),
                             inp.threshold))
              \/ FEq(total,
                     Reaches(FSumFn([k \in DOMAIN out.rows |->
                                        out.rows[k].Prevalence]),
                             inp.threshold))
        /\ \A k, j \in DOMAIN out.rows :
              FEq(out.rows[k].Prevalence, out.rows[j].Prevalence) =>
                  FEq(out.rows[k].Shapley_MDR_Contribution,
                      out.rows[j].Shapley_MDR_Contribution)

====
